---------------------------- MODULE Spec2Model ----------------------------
(***************************************************************************)
(* Model of github-code-research: the symbol ranking (parsers/pagerank.py) *)
(* and the repository map pipeline (tools/repo_map.py) with the cache and  *)
(* the upstream repository it reads.                                       *)
(*                                                                         *)
(* Strings are TLA+ strings; Python's str methods are modelled character   *)
(* by character.  Scores are Python floats (IEEE 754 binary64, computed    *)
(* bit by bit); a score map is a function from names to floats.            *)
(***************************************************************************)
EXTENDS Integers, Sequences, FiniteSets, TLC

VARIABLES
    rk_pc,        \* "input" before rank_symbols has run on rk_in, "ranked" after
    rk_in,        \* the arguments of rank_symbols: [symbols, imports, calls]
    rk_out,       \* what rank_symbols computed: graph, raw, boosted and final scores
    ranker,       \* the SymbolRanker instance: its attributes
    rk_calls,     \* how many times rank_symbols has run on the instance
    rk_call       \* history: the attributes of the instance in the run on rk_in

rank_vars == <<rk_pc, rk_in, rk_out, ranker, rk_calls, rk_call>>

VARIABLES
    catalog,      \* the requests clients send (fixed by the initial state)
    budget,       \* how many requests are served in one behaviour
    broken,       \* parser classes whose constructor raises in this installation
    head,         \* upstream: the commit each repository's default branch is at
    now,          \* the clock, in seconds
    cache,        \* FileCache: cache file name -> [cached_at, value]
    parser_cache, \* ParserFactory._parser_cache: the classes with an instance
    n_requests,   \* requests started so far
    pc,           \* where get_repo_map_tool is: "idle", "tree", "files", "done"
    req,          \* the request being served: [owner, repo, max_symbols]
    commit_sha,   \* generate_map's commit_sha
    cache_key,    \* generate_map's cache_key
    code_files,   \* generate_map's code_files, once filtered and capped
    idx,          \* index in code_files of the file processed next
    all_symbols,  \* generate_map's accumulators
    all_imports,
    all_calls,
    fetch_log,    \* history: one entry per get_file_content call of this request
    ranking,      \* history: the scores and the ranked list of a computed map
    stored_by,    \* history: cache file name -> the request that wrote it
    lookup,       \* history: the cache lookup of the request being served
    api_log,      \* history: the upstream and cache operations of this request
    result,       \* what generate_map returned ("none": nothing, it raised)
    response,     \* what get_repo_map_tool returned
    previous      \* history: the lookup and the result of the request before

env_vars == <<catalog, budget, broken, head, now>>
tool_vars == <<cache, parser_cache, n_requests, pc, req, commit_sha, cache_key,
               code_files, idx, all_symbols, all_imports, all_calls, fetch_log,
               ranking, stored_by, lookup, api_log, result, response, previous>>
map_vars == <<env_vars, tool_vars>>

VARIABLES
    pf            \* the last direct call of ParserFactory: path, parser, is_supported

factory_vars == <<pf>>

VARIABLES
    rl_state,     \* RateLimiter.state: endpoint type -> [remaining, reset, limit]
    rl_last,      \* history: the last check_limit and the calls let through
    mr,           \* the _make_request call in progress or finished
    gt            \* the get_tree call in progress or finished

client_vars == <<rl_state, rl_last, mr, gt>>
vars == <<rank_vars, map_vars, factory_vars, client_vars>>

---------------------------------------------------------------------------
(* Bounds of the model *)

\* longest list of distinct declarations drawn as rank_symbols input
MaxSyms == 4
\* requests served in one behaviour of Spec
MaxRequests == 2

---------------------------------------------------------------------------
(* Python str methods *)

StartsWith(s, p) == Len(p) <= Len(s) /\ SubSeq(s, 1, Len(p)) = p

EndsWith(s, p) == Len(p) <= Len(s) /\ SubSeq(s, Len(s) - Len(p) + 1, Len(s)) = p

\* index of the first occurrence of p in s, 0 when there is none
Find(s, p) ==
    LET hits == {i \in 1..(Len(s) - Len(p) + 1) : SubSeq(s, i, i + Len(p) - 1) = p}
    IN  IF hits = {} THEN 0 ELSE CHOOSE i \in hits : \A j \in hits : i <= j

\* p in s
Contains(s, p) == Find(s, p) # 0

\* s.split(sep)
RECURSIVE Split(_, _)
Split(s, sep) ==
    LET i == Find(s, sep)
    IN  IF i = 0 THEN <<s>>
        ELSE <<SubSeq(s, 1, i - 1)>> \o Split(SubSeq(s, i + Len(sep), Len(s)), sep)

\* s.split(sep, 1)
SplitOnce(s, sep) ==
    LET i == Find(s, sep)
    IN  IF i = 0 THEN <<s>>
        ELSE <<SubSeq(s, 1, i - 1), SubSeq(s, i + Len(sep), Len(s))>>

\* s.replace(old, new)
RECURSIVE Replace(_, _, _)
Replace(s, old, new) ==
    LET i == Find(s, old)
    IN  IF i = 0 THEN s
        ELSE SubSeq(s, 1, i - 1) \o new
             \o Replace(SubSeq(s, i + Len(old), Len(s)), old, new)

\* the characters str.isspace() holds of, up to U+00FF: tab, line feed,
\* vertical tab, form feed, carriage return, the separators U+001C..U+001F,
\* the blank, next line U+0085 and the no-break space U+00A0
Whitespace == "\t\n\f\r  "

IsSpace(c) == \E i \in 1..Len(Whitespace) : SubSeq(Whitespace, i, i) = c

\* s.strip()
RECURSIVE LStrip(_)
LStrip(s) ==
    IF Len(s) > 0 /\ IsSpace(SubSeq(s, 1, 1)) THEN LStrip(SubSeq(s, 2, Len(s))) ELSE s

RECURSIVE RStrip(_)
RStrip(s) ==
    IF Len(s) > 0 /\ IsSpace(SubSeq(s, Len(s), Len(s)))
    THEN RStrip(SubSeq(s, 1, Len(s) - 1)) ELSE s

Strip(s) == RStrip(LStrip(s))

\* the cased characters up to U+00FF that str.lower() changes, and what it
\* changes them to
UpperLetters == "ABCDEFGHIJKLMNOPQRSTUVWXYZÀÁÂÃÄÅÆÇÈÉÊËÌÍÎÏÐÑÒÓÔÕÖØÙÚÛÜÝÞ"
LowerLetters == "abcdefghijklmnopqrstuvwxyzàáâãäåæçèéêëìíîïðñòóôõöøùúûüýþ"

LowerOf ==
    [c \in {SubSeq(UpperLetters, i, i) : i \in 1..Len(UpperLetters)} |->
        SubSeq(LowerLetters, Find(UpperLetters, c), Find(UpperLetters, c))] @@ <<>>

LowerChar(c) == IF c \in DOMAIN LowerOf THEN LowerOf[c] ELSE c

\* s.lower()
RECURSIVE Lower(_)
Lower(s) ==
    IF Len(s) = 0 THEN s
    ELSE LowerChar(SubSeq(s, 1, 1)) \o Lower(SubSeq(s, 2, Len(s)))

---------------------------------------------------------------------------
(* Python floats: IEEE 754 binary64, round to nearest, ties to even *)

\* A float is 0.0 or m * 2^e with 2^52 <= m < 2^53; the scores are never
\* negative, infinite or subnormal.  A natural number is the sequence of its
\* digits to the base LIMB, the least significant first, with zeros after
\* them where an operation reads further; m is four digits.
LIMB_BITS == 2 * 7
LIMB == 2 ^ LIMB_BITS
MANT_BITS == 53

\* the least last digit of m
LEAD == 2 ^ (MANT_BITS - 1 - 3 * LIMB_BITS)

FZero == [m |-> <<0, 0, 0, 0>>, e |-> 0]

\* the digits of the number that has sums[j] at place j, from place i on:
\* what a place has above LIMB, or lacks below 0, is carried one place up
RECURSIVE Carry(_, _, _)
Carry(sums, i, carry) ==
    IF i > Len(sums) THEN <<carry>>
    ELSE <<(sums[i] + carry) % LIMB>> \o Carry(sums, i + 1, (sums[i] + carry) \div LIMB)

\* a + b at each place, a and b of four digits
Plus(a, b) == <<a[1] + b[1], a[2] + b[2], a[3] + b[3], a[4] + b[4]>>

\* a - b at each place, b of four digits and a of eight, and both of five
Minus(a, b) ==
    <<a[1] - b[1], a[2] - b[2], a[3] - b[3], a[4] - b[4], a[5], a[6], a[7], a[8]>>

Minus5(a, b) == <<a[1] - b[1], a[2] - b[2], a[3] - b[3], a[4] - b[4], a[5] - b[5]>>

\* a * b at each place, a and b of four digits
Columns(a, b) ==
    <<a[1] * b[1],
      a[1] * b[2] + a[2] * b[1],
      a[1] * b[3] + a[2] * b[2] + a[3] * b[1],
      a[1] * b[4] + a[2] * b[3] + a[3] * b[2] + a[4] * b[1],
      a[2] * b[4] + a[3] * b[3] + a[4] * b[2],
      a[3] * b[4] + a[4] * b[3],
      a[4] * b[4]>>

\* a * k at each place, a of four digits
Times(a, k) == <<a[1] * k, a[2] * k, a[3] * k, a[4] * k>>

\* a < b from digit i downwards
RECURSIVE Less(_, _, _)
Less(a, b, i) ==
    IF i = 0 THEN FALSE
    ELSE IF a[i] # b[i] THEN a[i] < b[i]
    ELSE Less(a, b, i - 1)

\* four digits of a \div p from digit k on, for p * q = LIMB
ShrBy(a, k, p, q) ==
    <<a[k] \div p + (a[k + 1] % p) * q,
      a[k + 1] \div p + (a[k + 2] % p) * q,
      a[k + 2] \div p + (a[k + 3] % p) * q,
      a[k + 3] \div p + (a[k + 4] % p) * q>>

\* the first four digits of a \div 2^n
Shr(a, n) ==
    ShrBy(a, n \div LIMB_BITS + 1, 2 ^ (n % LIMB_BITS), 2 ^ (LIMB_BITS - (n % LIMB_BITS)))

\* four digits of a * p from digit k on, for p * q = LIMB and a after four
\* zeros
ShlBy(a, k, p, q) ==
    <<(a[k + 1] % q) * p + a[k] \div q,
      (a[k + 2] % q) * p + a[k + 1] \div q,
      (a[k + 3] % q) * p + a[k + 2] \div q,
      (a[k + 4] % q) * p + a[k + 3] \div q>>

\* the first four digits of a * 2^n and the four after them, a of four
\* digits
Shl(a, n) ==
    ShlBy(<<0, 0, 0, 0>> \o a, 4 - n \div LIMB_BITS,
          2 ^ (n % LIMB_BITS), 2 ^ (LIMB_BITS - (n % LIMB_BITS)))

ShlOver(a, n) ==
    ShlBy(<<0, 0, 0, 0>> \o a \o <<0, 0, 0, 0>>, 8 - n \div LIMB_BITS,
          2 ^ (n % LIMB_BITS), 2 ^ (LIMB_BITS - (n % LIMB_BITS)))

\* bit i of a, bit 0 the least significant
BitAt(a, i) == (a[i \div LIMB_BITS + 1] \div 2 ^ (i % LIMB_BITS)) % 2

\* a % 2^n = 0
LowBitsZero(a, n) ==
    /\ a[n \div LIMB_BITS + 1] % 2 ^ (n % LIMB_BITS) = 0
    /\ \A i \in 1..(n \div LIMB_BITS) : a[i] = 0

\* the place of the last digit of a that is not 0, at or below i; 0 for a = 0
RECURSIVE Top(_, _)
Top(a, i) == IF i = 0 \/ a[i] # 0 THEN i ELSE Top(a, i - 1)

\* the number of bits of a digit
RECURSIVE Bits(_)
Bits(n) == IF n = 0 THEN 0 ELSE 1 + Bits(n \div 2)

\* m + 1, m of four digits
Inc(m) ==
    IF m[1] < LIMB - 1 THEN <<m[1] + 1, m[2], m[3], m[4]>>
    ELSE IF m[2] < LIMB - 1 THEN <<0, m[2] + 1, m[3], m[4]>>
    ELSE IF m[3] < LIMB - 1 THEN <<0, 0, m[3] + 1, m[4]>>
    ELSE <<0, 0, 0, m[4] + 1>>

\* m and a fraction, rounded to the nearest integer and to the even one on a
\* tie: the fraction is a half or more with `half`, and not just a half
\* with `more`
Nearest(m, half, more) == IF half /\ (more \/ m[1] % 2 = 1) THEN Inc(m) ELSE m

\* a / 2^n for n > 0 so rounded, in four digits
Rounded(a, n) == Nearest(Shr(a, n), BitAt(a, n - 1) = 1, ~LowBitsZero(a, n - 1))

\* m * 2^e for a rounded m, which is 2^MANT_BITS when the rounding went up
\* from MANT_BITS ones
FRounded(m, e) ==
    IF m[4] = 2 * LEAD THEN [m |-> <<0, 0, 0, LEAD>>, e |-> e + 1]
    ELSE [m |-> m, e |-> e]

\* the float nearest to a * 2^e, a with MANT_BITS + n bits
FRoundBy(a, e, n) ==
    IF n <= 0 THEN [m |-> Shl(<<a[1], a[2], a[3], a[4]>>, -n), e |-> e + n]
    ELSE FRounded(Rounded(a, n), e + n)

FRoundFrom(a, e, top) ==
    IF top = 0 THEN FZero
    ELSE FRoundBy(a, e, LIMB_BITS * (top - 1) + Bits(a[top]) - MANT_BITS)

\* the float nearest to a * 2^e, a of nine digits
FRound(a, e) == FRoundFrom(a, e, Top(a, Len(a)))

\* float(n) for a natural number n
FloatOf(n) ==
    FRound(<<n % LIMB, (n \div LIMB) % LIMB, n \div (LIMB * LIMB), 0, 0, 0, 0, 0, 0>>, 0)

\* x < y
FLess(x, y) ==
    IF y.m[4] = 0 THEN FALSE
    ELSE IF x.m[4] = 0 THEN TRUE
    ELSE IF x.e # y.e THEN x.e < y.e
    ELSE Less(x.m, y.m, 4)

FLeq(x, y) == ~FLess(y, x)

\* x * y: the product of the two m has 2 * MANT_BITS bits or one less
FProduct(a, e) ==
    FRoundBy(a, e, IF BitAt(a, 2 * MANT_BITS - 1) = 1 THEN MANT_BITS ELSE MANT_BITS - 1)

FMul(x, y) ==
    IF x.m[4] = 0 \/ y.m[4] = 0 THEN FZero
    ELSE FProduct(Carry(Columns(x.m, y.m), 1, 0), x.e + y.e)

\* x + y for x.e - y.e = d >= 0: y.m is q * 2^d + r, m is x.m + q, and the
\* sum m * 2^d + r has MANT_BITS + d bits or one more
FPlusOf(x, y, d, m) ==
    IF m[4] >= 2 * LEAD
    THEN FRounded(Nearest(Shr(m, 1), m[1] % 2 = 1, ~LowBitsZero(y.m, d)), x.e + 1)
    ELSE FRounded(Nearest(<<m[1], m[2], m[3], m[4]>>,
                          d > 0 /\ BitAt(y.m, d - 1) = 1, ~LowBitsZero(y.m, d - 1)), x.e)

\* y is below half of the last bit of x when d is above MANT_BITS
FPlus(x, y, d) ==
    IF d > MANT_BITS THEN x
    ELSE FPlusOf(x, y, d, Carry(Plus(x.m, Shr(y.m \o <<0, 0, 0, 0>>, d)), 1, 0))

\* x + y
FAdd(x, y) ==
    IF x.m[4] = 0 THEN y
    ELSE IF y.m[4] = 0 THEN x
    ELSE FPlus(IF x.e >= y.e THEN x ELSE y, IF x.e >= y.e THEN y ELSE x,
               IF x.e >= y.e THEN x.e - y.e ELSE y.e - x.e)

\* x - y for x >= y: x.m * 2^d - y.m for x.e - y.e = d; y is below a
\* quarter of the last bit of x when d is above MANT_BITS + 2
FSub(x, y) ==
    IF y.m[4] = 0 \/ x.e - y.e > MANT_BITS + 2 THEN x
    ELSE FRound(Carry(Minus(Shl(x.m, x.e - y.e) \o ShlOver(x.m, x.e - y.e), y.m), 1, 0), y.e)

\* long division by b, four digits of which the last is LIMB / 2 or more: a
\* digit of the quotient is found from the leading digits of low, which has
\* five, and corrected downwards, twice at most; r is what is left of low
RECURSIVE DivDigit(_, _, _, _)
DivDigit(low, b, digit, product) ==
    IF Less(low, product, 5)
    THEN DivDigit(low, b, digit - 1, Carry(Times(b, digit - 1), 1, 0))
    ELSE [digit |-> digit, r |-> SubSeq(Carry(Minus5(low, product), 1, 0), 1, 4)]

DivStepBy(low, b, digit) == DivDigit(low, b, digit, Carry(Times(b, digit), 1, 0))

DivStep(low, b, lead) ==
    DivStepBy(low, b, IF lead \div b[4] > LIMB - 1 THEN LIMB - 1 ELSE lead \div b[4])

\* the n digits of the quotient still to find, put before those found, q:
\* a 0 is brought down to what is left, and the last bit of the quotient is
\* set when the division leaves a remainder
RECURSIVE Quotient(_, _, _, _)
QuotientBy(step, b, n, q) ==
    IF n > 1 THEN Quotient(<<0>> \o step.r, b, n - 1, <<step.digit>> \o q)
    ELSE IF step.r = <<0, 0, 0, 0>> THEN <<step.digit>> \o q
    ELSE <<(step.digit \div 2) * 2 + 1>> \o q

Quotient(low, b, n, q) == QuotientBy(DivStep(low, b, low[5] * LIMB + low[4]), b, n, q)

\* the quotient of the two m has 4 * LIMB_BITS bits or one more
FQuotient(a, e) == FRoundBy(a, e, IF a[5] > 0 THEN 4 * LIMB_BITS - MANT_BITS + 1
                                   ELSE 4 * LIMB_BITS - MANT_BITS)

\* x / y for y > 0: the quotient of the two m, each brought to four full
\* digits
FDiv(x, y) ==
    IF x.m[4] = 0 THEN FZero
    ELSE FQuotient(Quotient(Shl(x.m, 4 * LIMB_BITS - MANT_BITS) \o <<0>>,
                            Shl(y.m, 4 * LIMB_BITS - MANT_BITS), 5, <<>>),
                   x.e - y.e - 4 * LIMB_BITS)

\* the value of a natural number small enough for an integer
RECURSIVE Value(_)
Value(a) == IF a = <<>> THEN 0
            ELSE IF Tail(a) = <<>> THEN a[1]
            ELSE a[1] + LIMB * Value(Tail(a))

---------------------------------------------------------------------------
(* parsers/pagerank.py: SymbolRanker *)

\* the boost factors: the floats the literals 1.5, 2.0 and 1.2 stand for
EXPORTED_BOOST == FDiv(FloatOf(15), FloatOf(10))
ENTRY_POINT_BOOST == FloatOf(2)
CLASS_BOOST == FDiv(FloatOf(12), FloatOf(10))

ENTRY_POINTS ==
    {"main", "__main__", "init", "__init__", "setup", "start", "run",
     "execute", "index", "default", "app"}

\* nx.DiGraph.has_edge
HasEdge(edges, u, v) == \E e \in edges : e.src = u /\ e.dst = v

\* an add_edge that keeps the edge the pair already has (a multigraph)
AddEdge_Parallel(edges, u, v, w, t) ==
    edges \cup {[src |-> u, dst |-> v, weight |-> w, type |-> t]}

\* nx.DiGraph.add_edge: one edge per ordered pair, a second add_edge on the
\* pair replaces the attributes
AddEdge(edges, u, v, w, t) ==
    {e \in edges : ~(e.src = u /\ e.dst = v)}
        \cup {[src |-> u, dst |-> v, weight |-> w, type |-> t]}

\* the call's base name: call.split(".")[-1]
CallName(call) == LET parts == Split(call, ".") IN parts[Len(parts)]

\* the body of "for call in calls": every other symbol gets an edge to every
\* symbol named like the call, unless the pair has an edge already
AddCallEdges(edges, symbols, call) ==
    edges \cup
    {[src |-> symbols[j].name, dst |-> symbols[i].name, weight |-> 2, type |-> "call"] :
        <<i, j>> \in {p \in (1..Len(symbols)) \X (1..Len(symbols)) :
                        /\ symbols[p[1]].name = CallName(call)
                        /\ symbols[p[2]].name # symbols[p[1]].name
                        /\ ~HasEdge(edges, symbols[p[2]].name, symbols[p[1]].name)}}

RECURSIVE CallEdgesFrom(_, _, _, _)
CallEdgesFrom(edges, symbols, calls, k) ==
    IF k > Len(calls) THEN edges
    ELSE CallEdgesFrom(AddCallEdges(edges, symbols, calls[k]), symbols, calls, k + 1)

\* name = imp.strip().split(" as ")[0].strip()
ImportItemName(item) == Strip(Split(Strip(item), " as ")[1])

\* name.split(".")[-1] when the name has a dot
LastDotted(name) ==
    IF Contains(name, ".") THEN LET p == Split(name, ".") IN p[Len(p)] ELSE name

ExtractImportedNames(import_stmt) ==
    IF StartsWith(import_stmt, "from")
    THEN IF Contains(import_stmt, " import ")
         THEN LET parts == SplitOnce(import_stmt, " import ")
                  imports == Split(parts[2], ",")
              IN  [i \in 1..Len(imports) |-> ImportItemName(imports[i])]
         ELSE <<>>
    ELSE IF StartsWith(import_stmt, "import")
         THEN LET parts == Split(Replace(import_stmt, "import ", ""), ",")
              IN  [i \in 1..Len(parts) |-> LastDotted(ImportItemName(parts[i]))]
         ELSE <<>>

\* the body of "for import_stmt in imports": a self-loop on every symbol
\* whose name the statement imports
AddImportEdges(edges, symbols, import_stmt) ==
    LET imported == ExtractImportedNames(import_stmt)
        hit == {symbols[i].name : i \in {j \in 1..Len(symbols) :
                    \E k \in 1..Len(imported) : symbols[j].name = imported[k]}}
    IN  {e \in edges : ~(e.src = e.dst /\ e.src \in hit)}
            \cup {[src |-> n, dst |-> n, weight |-> 1, type |-> "import"] : n \in hit}

RECURSIVE ImportEdgesFrom(_, _, _, _)
ImportEdgesFrom(edges, symbols, imports, k) ==
    IF k > Len(imports) THEN edges
    ELSE ImportEdgesFrom(AddImportEdges(edges, symbols, imports[k]), symbols, imports, k + 1)

\* class_name = method.name.split(".")[0]
ClassNameOf(method_name) == Split(method_name, ".")[1]

\* AddContainmentEdge with the edge drawn from the class to the method
AddContainmentEdge_Reversed(edges, symbols, method) ==
    IF /\ Contains(method.name, ".")
       /\ \E i \in 1..Len(symbols) :
             symbols[i].type = "class" /\ symbols[i].name = Split(method.name, ".")[1]
    THEN AddEdge(edges, Split(method.name, ".")[1], method.name, 3, "inheritance")
    ELSE edges

\* AddContainmentEdge without the look-up of the class among the symbols
AddContainmentEdge_Unchecked(edges, symbols, method) ==
    IF Contains(method.name, ".")
    THEN AddEdge(edges, method.name, ClassNameOf(method.name), 3, "inheritance")
    ELSE edges

\* the body of "for method in method_symbols"
AddContainmentEdge(edges, symbols, method) ==
    IF /\ Contains(method.name, ".")
       /\ \E i \in 1..Len(symbols) :
             symbols[i].type = "class" /\ symbols[i].name = ClassNameOf(method.name)
    THEN AddEdge(edges, method.name, ClassNameOf(method.name), 3, "inheritance")
    ELSE edges

RECURSIVE ContainmentEdgesFrom(_, _, _)
ContainmentEdgesFrom(edges, symbols, k) ==
    IF k > Len(symbols) THEN edges
    ELSE ContainmentEdgesFrom(
            IF symbols[k].type = "method"
            THEN AddContainmentEdge(edges, symbols, symbols[k]) ELSE edges,
            symbols, k + 1)

\* the names of the symbols, each where add_node sees it first: a DiGraph
\* keeps its nodes in the order they were added
FirstSeen(names) ==
    LET first == SelectSeq([i \in 1..Len(names) |-> i],
                           LAMBDA i : \A j \in 1..(i - 1) : names[j] # names[i])
    IN  [k \in 1..Len(first) |-> names[first[k]]]

RECURSIVE SeqOf(_)
SeqOf(S) == IF S = {} THEN <<>> ELSE LET x == CHOOSE y \in S : TRUE IN <<x>> \o SeqOf(S \ {x})

\* the DiGraph after add_node for the names and add_edge for the edges: an
\* endpoint that is no node yet becomes one, after the others
GraphOf(names, edges) ==
    LET added == ({e.src : e \in edges} \cup {e.dst : e \in edges})
                     \ {names[i] : i \in 1..Len(names)}
    IN  [nodes |-> {names[i] : i \in 1..Len(names)} \cup added,
         nodelist |-> names \o SeqOf(added),
         edges |-> edges]

\* a graph builder that makes a node of every called name as well
BuildDependencyGraph_CalledNodes(symbols, imports, calls) ==
    GraphOf(FirstSeen([i \in 1..Len(symbols) |-> symbols[i].name]
                      \o [k \in 1..Len(calls) |-> CallName(calls[k])]),
            ContainmentEdgesFrom(
                ImportEdgesFrom(CallEdgesFrom({}, symbols, calls, 1), symbols, imports, 1),
                symbols, 1))

\* _build_dependency_graph: add_node for every symbol, then the edges;
\* add_edge makes a node of an endpoint the graph does not have yet
BuildDependencyGraph(symbols, imports, calls) ==
    GraphOf(FirstSeen([i \in 1..Len(symbols) |-> symbols[i].name]),
            ContainmentEdgesFrom(
                ImportEdgesFrom(CallEdgesFrom({}, symbols, calls, 1), symbols, imports, 1),
                symbols, 1))

\* damping_factor=0.85 and max_iterations=20
DAMPING == FDiv(FloatOf(17), FloatOf(20))
MAX_ITERATIONS == 20

\* a dict of scores is a function from names to floats
NoScores == [n \in {} |-> FZero]

\* a dict holds its values, computed when it is made
Dict(scores) == scores @@ NoScores
NoGraph == [nodes |-> {}, nodelist |-> <<>>, edges |-> {}]

\* nx.pagerank is library code (networkx, _pagerank_scipy), followed here
\* statement by statement in binary64:
\*   nodelist = list(G);  A = to_scipy_sparse_array(G, nodelist, weight)
\*   S = A.sum(axis=1);  S[S != 0] = 1.0 / S[S != 0];  A = Q @ A
\*   x = p = dangling_weights = repeat(1.0 / N, N)
\*   is_dangling = where(S == 0)
\*   max_iter times:
\*     xlast = x
\*     x = alpha * (x @ A + sum(x[is_dangling]) * dangling_weights) + (1 - alpha) * p
\*     err = absolute(x - xlast).sum();  if err < N * tol: return the dict of x
\*   raise PowerIterationFailedConvergence
\* A node is its place in nodelist, a vector a sequence over the places, and
\* the sums run over the places in order, as they do in the library below
\* eight nodes.

\* tol=1.0e-6, the default of nx.pagerank
PRTol == FDiv(FloatOf(1), FloatOf(1000000))

\* abs(x - y)
FAbsDiff(x, y) == IF FLess(x, y) THEN FSub(y, x) ELSE FSub(x, y)

\* the weight of the edge from place i to place j, 0 without one
Weight(graph, i, j) ==
    LET between == {e \in graph.edges :
                       e.src = graph.nodelist[i] /\ e.dst = graph.nodelist[j]}
    IN  IF between = {} THEN 0 ELSE (CHOOSE e \in between : TRUE).weight

\* the weights of row i of A, up to column j
RECURSIVE OutWeight(_, _, _)
OutWeight(graph, i, j) ==
    IF j = 0 THEN 0 ELSE OutWeight(graph, i, j - 1) + Weight(graph, i, j)

\* S before it is inverted
RowSums(graph) ==
    [i \in 1..Len(graph.nodelist) |-> OutWeight(graph, i, Len(graph.nodelist))] \o <<>>

\* is_dangling: the places whose row is empty
IsDangling(S) == SelectSeq([i \in 1..Len(S) |-> i], LAMBDA i : S[i] = 0)

\* A = Q @ A: an entry is the inverse of its row's S times the weight
Entry(S, i, weight) == FMul(FDiv(FloatOf(1), FloatOf(S[i])), FloatOf(weight))

\* column j of A: the entries that are not 0, by their row
Column(graph, S, j) ==
    LET rows == SelectSeq([i \in 1..Len(S) |-> i], LAMBDA i : Weight(graph, i, j) # 0)
    IN  [k \in 1..Len(rows) |->
            [row |-> rows[k], a |-> Entry(S, rows[k], Weight(graph, rows[k], j))]] \o <<>>

Matrix(graph, S) == [j \in 1..Len(S) |-> Column(graph, S, j)] \o <<>>

\* (x @ A)[j] from the first n entries of column j
RECURSIVE Inflow(_, _, _)
Inflow(column, x, n) ==
    IF n = 0 THEN FZero
    ELSE FAdd(Inflow(column, x, n - 1), FMul(column[n].a, x[column[n].row]))

\* sum(x[places]) over the first n of the places
RECURSIVE FSum(_, _, _)
FSum(x, places, n) ==
    IF n = 0 THEN FZero ELSE FAdd(FSum(x, places, n - 1), x[places[n]])

\* absolute(x - xlast).sum() over the first n places.  ndarray.sum is
\* add.reduce: the result starts as the identity 0 and a run of fewer than
\* eight elements is added to it first to last (the graphs ranked here have
\* fewer than eight nodes; longer runs are summed in eight interleaved parts)
RECURSIVE PageRankError(_, _, _)
PageRankError(x, xlast, n) ==
    IF n = 0 THEN FZero
    ELSE FAdd(PageRankError(x, xlast, n - 1), FAbsDiff(x[n], xlast[n]))

\* what the loop works on: A, alpha, p, is_dangling and N * tol, which it
\* does not change, x, and whether it has returned
Float == [m : Seq(Nat), e : Int]
Loop == [A : Seq(Seq([row : Nat, a : Float])), alpha : Float, p : Float,
         is_dangling : Seq(Nat), limit : Float, x : Seq(Float), ok : BOOLEAN]

\* alpha * (x @ A + sum(x[is_dangling]) * dangling_weights) + (1 - alpha) * p
\* with dangling and teleport for the two products by p, which are the
\* same at every place; dangling_weights is p
NextX(A, alpha, x, dangling, teleport) ==
    [j \in 1..Len(x) |->
        FAdd(FMul(alpha, FAdd(Inflow(A[j], x, Len(A[j])), dangling)), teleport)] \o <<>>

\* the end of a pass: err < N * tol
Checked(s, x) == [s EXCEPT !.x = x, !.ok = FLess(PageRankError(x, s.x, Len(x)), s.limit)]

\* one pass of the loop
PageRankRound[s \in Loop] ==
    Checked(s, NextX(s.A, s.alpha, s.x,
                     FMul(FSum(s.x, s.is_dangling, Len(s.is_dangling)), s.p),
                     FMul(FSub(FloatOf(1), s.alpha), s.p)))

\* the loop with max_iter passes to go
RECURSIVE PageRankIterate(_, _)
PageRankIterate(s, max_iter) ==
    IF max_iter = 0 \/ s.ok THEN s ELSE PageRankIterate(PageRankRound[s], max_iter - 1)

PageRankFrom(graph, alpha, max_iter, p, S) ==
    PageRankIterate([A |-> Matrix(graph, S), alpha |-> alpha, p |-> p,
                     is_dangling |-> IsDangling(S),
                     limit |-> FMul(FloatOf(Len(S)), PRTol),
                     x |-> [i \in 1..Len(S) |-> p] \o <<>>, ok |-> FALSE],
                    max_iter)

\* the loop on a graph with nodes: whether it returned, and the last x
PageRank(graph, alpha, max_iter) ==
    PageRankFrom(graph, alpha, max_iter,
                 FDiv(FloatOf(1), FloatOf(Len(graph.nodelist))), RowSums(graph))

\* dict(zip(nodelist, x)), or the exception
NxResult(graph, run) ==
    IF run.ok
    THEN [ok |-> TRUE,
          scores |-> Dict([v \in graph.nodes |->
              run.x[CHOOSE i \in 1..Len(graph.nodelist) : graph.nodelist[i] = v]])]
    ELSE [ok |-> FALSE, scores |-> NoScores]

\* nx.pagerank(graph, alpha=alpha, max_iter=max_iter): the exception, or
\* the dict of the scores
NxPagerank(graph, alpha, max_iter) ==
    IF graph.nodelist = <<>> THEN [ok |-> TRUE, scores |-> NoScores]
    ELSE NxResult(graph, PageRank(graph, alpha, max_iter))

\* pagerank_scores = {s.name: 1.0 for s in symbols}
DefaultScores(symbols) ==
    [n \in {symbols[i].name : i \in 1..Len(symbols)} |-> FloatOf(1)]

\* base_score after the three "if ...: base_score *= ..." statements
BoostedScore(symbol, base_score) ==
    LET exported == IF symbol.is_exported
                    THEN FMul(base_score, EXPORTED_BOOST) ELSE base_score
        entry == IF Lower(symbol.name) \in ENTRY_POINTS
                 THEN FMul(exported, ENTRY_POINT_BOOST) ELSE exported
    IN  IF symbol.type = "class" THEN FMul(entry, CLASS_BOOST) ELSE entry

\* "for symbol in symbols" from the k-th symbol on: a name that is not
\* scored is skipped, otherwise base_score is read from boosted_scores and
\* written back to it
RECURSIVE ApplyBoostsFrom(_, _, _)
ApplyBoostsFrom(symbols, boosted_scores, k) ==
    IF k > Len(symbols) THEN boosted_scores
    ELSE IF symbols[k].name \notin DOMAIN boosted_scores
    THEN ApplyBoostsFrom(symbols, boosted_scores, k + 1)
    ELSE ApplyBoostsFrom(symbols,
             [boosted_scores EXCEPT ![symbols[k].name] = BoostedScore(symbols[k], @)],
             k + 1)

ApplyBoosts(symbols, scores) == ApplyBoostsFrom(symbols, scores, 1)

MaxOf(S) == CHOOSE x \in S : \A y \in S : x >= y

\* min() and max() of floats
FMin(S) == CHOOSE x \in S : \A y \in S : FLeq(x, y)
FMax(S) == CHOOSE x \in S : \A y \in S : FLeq(y, x)

\* NormalizeScores giving 0.0 instead of 1.0 when all scores are equal
NormalizeScores_TieZero(scores) ==
    IF DOMAIN scores = {} THEN scores
    ELSE LET vals == {scores[n] : n \in DOMAIN scores}
         IN  IF FMax(vals) = FMin(vals)
             THEN [n \in DOMAIN scores |-> FZero]
             ELSE [n \in DOMAIN scores |->
                     FDiv(FSub(scores[n], FMin(vals)), FSub(FMax(vals), FMin(vals)))]

\* a normalisation that divides by the maximum without subtracting the minimum
NormalizeScores_ByMax(scores) ==
    IF DOMAIN scores = {} THEN scores
    ELSE [n \in DOMAIN scores |->
            FDiv(scores[n], FMax({scores[m] : m \in DOMAIN scores}))]

NormalizeScores(scores) ==
    IF DOMAIN scores = {} THEN scores
    ELSE LET vals == {scores[n] : n \in DOMAIN scores}
             min_score == FMin(vals)
             max_score == FMax(vals)
             range == FSub(max_score, min_score)
         IN  IF max_score = min_score
             THEN [n \in DOMAIN scores |-> FloatOf(1)]
             ELSE Dict([n \in DOMAIN scores |->
                          FDiv(FSub(scores[n], min_score), range)])

\* SymbolRanker.__init__ with its default arguments
NewRanker == [damping_factor |-> DAMPING, max_iterations |-> MAX_ITERATIONS]

\* the instance after rank_symbols: no statement of rank_symbols or of its
\* helpers assigns an attribute of self
RankerAfter(self) == self

\* rank_symbols from "Run PageRank" on: the graph, whether nx.pagerank
\* raised, and the three dicts
RankGraph(self, symbols, graph) ==
    LET pr == NxPagerank(graph, self.damping_factor, self.max_iterations)
        pagerank_scores == IF pr.ok THEN pr.scores ELSE DefaultScores(symbols)
        boosted_scores == ApplyBoosts(symbols, pagerank_scores)
    IN  [graph |-> graph, failed |-> ~pr.ok, pagerank_scores |-> pagerank_scores,
         boosted_scores |-> boosted_scores, scores |-> NormalizeScores(boosted_scores)]

\* rank_symbols
RankSymbols(self, symbols, imports, calls) ==
    IF symbols = <<>>
    THEN [graph |-> NoGraph, failed |-> FALSE, pagerank_scores |-> NoScores,
          boosted_scores |-> NoScores, scores |-> NoScores]
    ELSE RankGraph(self, symbols, BuildDependencyGraph(symbols, imports, calls))

---------------------------------------------------------------------------
(* The inputs rank_symbols is checked on *)

Sym(name, type, is_exported, signature) ==
    [name |-> name, type |-> type, is_exported |-> is_exported,
     signature |-> signature, file_path |-> ""]

SymbolPool ==
    {Sym("App", "class", TRUE, "class App"),
     Sym("helper", "function", FALSE, "function helper()"),
     Sym("helper", "class", TRUE, "class helper"),
     Sym("Foo", "class", TRUE, "class Foo"),
     Sym("Foo.bar", "method", TRUE, "Foo.bar()")}

\* lists of up to n distinct declarations
RECURSIVE DistinctLists(_, _)
DistinctLists(S, n) ==
    IF n = 0 THEN {<<>>}
    ELSE DistinctLists(S, n - 1)
         \cup {Append(l, x) : <<l, x>> \in
                 {p \in DistinctLists(S, n - 1) \X S :
                    /\ Len(p[1]) = n - 1
                    /\ \A i \in 1..Len(p[1]) : p[1][i] # p[2]}}

\* the last declaration may occur again, as the same declaration found in
\* further files
ExtraCopies == {0, 1, 2}

RECURSIVE Repeated(_, _)
Repeated(x, n) == IF n = 0 THEN <<>> ELSE <<x>> \o Repeated(x, n - 1)

SymbolLists ==
    {l \o Repeated(l[Len(l)], k) :
        <<l, k>> \in {p \in DistinctLists(SymbolPool, MaxSyms) \X ExtraCopies :
                        Len(p[1]) > 0}}
    \cup {<<>>}

\* the import statements and call expressions that go with a symbol list
ImportCallCases ==
    {[imports |-> <<>>, calls |-> <<>>],
     [imports |-> <<"import pkg.App">>, calls |-> <<>>],
     [imports |-> <<>>, calls |-> <<"helper", "self.run">>],
     [imports |-> <<"from pkg import helper as h, Foo">>, calls |-> <<"Foo">>]}

---------------------------------------------------------------------------
(* ParserFactory *)

\* EXTENSION_MAP, in the order of its keys
EXTENSION_MAP ==
    <<<<".py", "PythonParser">>,
      <<".js", "JavaScriptParser">>, <<".jsx", "JavaScriptParser">>,
      <<".mjs", "JavaScriptParser">>, <<".cjs", "JavaScriptParser">>,
      <<".ts", "TypeScriptParser">>, <<".tsx", "TypeScriptParser">>,
      <<".mts", "TypeScriptParser">>, <<".cts", "TypeScriptParser">>>>

\* ParserFactory.is_supported(file_path=...)
IsSupported(file_path) ==
    /\ file_path # ""
    /\ \E i \in 1..Len(EXTENSION_MAP) : EndsWith(file_path, EXTENSION_MAP[i][1])

\* the class get_parser picks for a path: that of the first extension the
\* path ends with, "None" when there is none
ParserClass(file_path) ==
    LET hits == {i \in 1..Len(EXTENSION_MAP) : EndsWith(file_path, EXTENSION_MAP[i][1])}
    IN  IF file_path = "" \/ hits = {} THEN "None"
        ELSE EXTENSION_MAP[CHOOSE i \in hits : \A j \in hits : i <= j][2]

\* a get_parser that constructs a parser on every call and stores none
GetParser_Uncached(file_path, instances, unbuildable) ==
    LET parser_class == ParserClass(file_path)
    IN  IF parser_class = "None" \/ parser_class \in unbuildable
        THEN [parser |-> "None", instances |-> instances]
        ELSE [parser |-> parser_class, instances |-> instances]

\* ParserFactory.get_parser(file_path=...): the parser it returns ("None"
\* when the path has no parser or the constructor raises) and the instances
\* _parser_cache holds afterwards
GetParser(file_path, instances, unbuildable) ==
    LET parser_class == ParserClass(file_path)
    IN  IF parser_class = "None"
        THEN [parser |-> "None", instances |-> instances]
        ELSE IF parser_class \in instances
        THEN [parser |-> parser_class, instances |-> instances]
        ELSE IF parser_class \in unbuildable
        THEN [parser |-> "None", instances |-> instances]
        ELSE [parser |-> parser_class, instances |-> instances \cup {parser_class}]

---------------------------------------------------------------------------
(* FileCache *)

\* RepositoryMapper's default cache_ttl, the repo-map TTL of the settings
CACHE_TTL == 86400

\* _get_cache_path: the file a key is stored in
CachePath(key) ==
    Replace(Replace(Replace(key, "/", "_"), ":", "_"), "@", "_") \o ".pkl"

NoCache == [p \in {} |-> 0]

\* FileCache.get: the stored value, <<>> for None when the file is missing or
\* older than ttl (values are stored as <<dict>>)
CacheGet(files, key, ttl, time) ==
    LET cache_path == CachePath(key)
    IN  IF cache_path \notin DOMAIN files THEN <<>>
        ELSE IF time - files[cache_path].cached_at > ttl THEN <<>>
        ELSE files[cache_path].value

\* a set that leaves only the file it writes in the cache directory
CacheSet_Only(files, key, value, time) ==
    [p \in {CachePath(key)} |-> [cached_at |-> time, value |-> value]]

\* FileCache.set: the cache files afterwards
CacheSet(files, key, value, time) ==
    LET cache_path == CachePath(key)
    IN  [p \in DOMAIN files \cup {cache_path} |->
            IF p = cache_path THEN [cached_at |-> time, value |-> value]
            ELSE files[p]]

\* FileCache.invalidate: the file of the key is unlinked if it is there
CacheInvalidate(files, key) ==
    [p \in DOMAIN files \ {CachePath(key)} |-> files[p]]

\* FileCache.clear: every *.pkl file of the directory is unlinked
CacheClear(files) == NoCache

---------------------------------------------------------------------------
(* RepositoryMapper *)

\* the substrings of a path that exclude it from the map
SKIP_PATTERNS ==
    {"node_modules/", "vendor/", ".git/", "__pycache__/",
     "dist/", "build/", ".egg-info/", "venv/", "env/",
     "test/", "tests/", "spec/", ".test.", ".spec.",
     ".min.", ".bundle.", ".map"}

\* the number of files generate_map processes at most
FILE_CAP == 100

\* max_symbols when the argument is absent or invalid
DEFAULT_MAX_SYMBOLS == 50

Digits == <<"0", "1", "2", "3", "4", "5", "6", "7", "8", "9">>

IsDigit(c) == \E d \in 1..Len(Digits) : Digits[d] = c

DigitValue(c) == CHOOSE d \in 0..9 : Digits[d + 1] = c

\* the value of a short text of digits
RECURSIVE DigitsValue(_)
DigitsValue(s) ==
    IF s = "" THEN 0
    ELSE DigitsValue(SubSeq(s, 1, Len(s) - 1)) * 10 + DigitValue(SubSeq(s, Len(s), Len(s)))

\* A Python int has no width: it is held as its decimal text, "-" before
\* the digits of a negative one and no leading zeros.
\* the text of an int from a sign and digits
Canonical(negative, digits) ==
    LET significant == {i \in 1..Len(digits) : SubSeq(digits, i, i) # "0"}
    IN  IF significant = {} THEN "0"
        ELSE (IF negative THEN "-" ELSE "")
             \o SubSeq(digits, CHOOSE i \in significant : \A j \in significant : i <= j,
                       Len(digits))

\* n < k for an int n that is not negative and a number k
Below(n, k) == Len(n) < 10 /\ DigitsValue(n) < k

\* n < k for an int n and a number k >= 0
IntBelow(n, k) == StartsWith(n, "-") \/ Below(n, k)

\* the end of sequence[:stop] in a sequence of the given length
SliceStop(stop, length) ==
    IF StartsWith(stop, "-")
    THEN IF Below(SubSeq(stop, 2, Len(stop)), length)
         THEN length - DigitsValue(SubSeq(stop, 2, Len(stop))) ELSE 0
    ELSE IF Below(stop, length) THEN DigitsValue(stop) ELSE length

\* what a call gives: the value it returns, or the class of the exception
\* it raises
Returns(value) == [raised |-> "None", value |-> value]
Raises(exception) == [raised |-> exception, value |-> ""]

\* a value of the arguments dict: the name of its Python type and its text,
\* str(value) (a str is its own text, a float's text is its repr)
Arg(type, text) == [type |-> type, text |-> text]

\* the key is not in the dict
Missing == Arg("missing", "")

\* arguments.get(key, default)
ArgumentsGet(value, default) == IF value = Missing THEN default ELSE value

\* the blanks int() skips around the digits of a str, up to U+00FF: the
\* ASCII blanks (not the separators U+001C..U+001F) and, of the others,
\* next line U+0085 and the no-break space U+00A0
IntSpace == "\t\n\f\r  "

IsIntSpace(c) == \E i \in 1..Len(IntSpace) : SubSeq(IntSpace, i, i) = c

IntStrip(s) ==
    LET kept == {i \in 1..Len(s) : ~IsIntSpace(SubSeq(s, i, i))}
    IN  IF kept = {} THEN ""
        ELSE SubSeq(s, CHOOSE i \in kept : \A j \in kept : i <= j,
                    CHOOSE i \in kept : \A j \in kept : j <= i)

\* a text without its sign
Unsigned(s) == IF StartsWith(s, "+") \/ StartsWith(s, "-") THEN SubSeq(s, 2, Len(s)) ELSE s

\* digits, and single underscores between two digits
IsDecimal(s) ==
    /\ s # ""
    /\ \A i \in 1..Len(s) :
          \/ IsDigit(SubSeq(s, i, i))
          \/ /\ SubSeq(s, i, i) = "_"
             /\ 1 < i /\ i < Len(s)
             /\ IsDigit(SubSeq(s, i - 1, i - 1))
             /\ IsDigit(SubSeq(s, i + 1, i + 1))

\* sys.get_int_max_str_digits(): int() takes no more digits from a str
INT_MAX_STR_DIGITS == 4300

\* int(s) of a str
IntOfDecimal(negative, body, digits) ==
    IF ~IsDecimal(body) \/ Len(digits) > INT_MAX_STR_DIGITS THEN Raises("ValueError")
    ELSE Returns(Canonical(negative, digits))

\* the characters lo..hi of s that are not underscores
RECURSIVE DigitsOf(_, _, _)
DigitsOf(s, lo, hi) ==
    IF lo > hi THEN ""
    ELSE IF lo = hi THEN (IF SubSeq(s, lo, lo) = "_" THEN "" ELSE SubSeq(s, lo, lo))
    ELSE DigitsOf(s, lo, (lo + hi) \div 2) \o DigitsOf(s, (lo + hi) \div 2 + 1, hi)

IntOfUnsigned(negative, body) == IntOfDecimal(negative, body, DigitsOf(body, 1, Len(body)))

IntOfStr(s) == IntOfUnsigned(StartsWith(IntStrip(s), "-"), Unsigned(IntStrip(s)))

\* the digit of n at i, 0 before the first
DigitAt(n, i) == IF i = 0 THEN 0 ELSE DigitValue(SubSeq(n, i, i))

\* the digits lo..hi of half an int that is not negative: each is half of
\* the digit above it, ten more when the digit before that one is odd
RECURSIVE HalfDigits(_, _, _)
HalfDigits(n, lo, hi) ==
    IF lo > hi THEN ""
    ELSE IF lo = hi THEN Digits[((10 * (DigitAt(n, lo - 1) % 2) + DigitAt(n, lo)) \div 2) + 1]
    ELSE HalfDigits(n, lo, (lo + hi) \div 2) \o HalfDigits(n, (lo + hi) \div 2 + 1, hi)

Half(n) == Canonical(FALSE, HalfDigits(n, 1, Len(n)))

\* the digits lo..hi of twice an int that is not negative: each is twice the
\* digit above it, one more when the digit after that one is 5 or more
RECURSIVE DoubleDigits(_, _, _)
DoubleDigits(n, lo, hi) ==
    IF lo > hi THEN ""
    ELSE IF lo = hi
    THEN Digits[((2 * DigitAt(n, lo) + (IF lo < Len(n) /\ DigitAt(n, lo + 1) >= 5 THEN 1 ELSE 0)) % 10) + 1]
    ELSE DoubleDigits(n, lo, (lo + hi) \div 2) \o DoubleDigits(n, (lo + hi) \div 2 + 1, hi)

Double(n) == (IF DigitAt(n, 1) >= 5 THEN "1" ELSE "") \o DoubleDigits(n, 1, Len(n))

\* n // 2 ** times and n * 2 ** times, by halves of times
RECURSIVE Halved(_, _)
HalvedOn(n, times) == IF n = "0" THEN n ELSE Halved(n, times)
Halved(n, times) ==
    IF times = 0 THEN n
    ELSE IF times = 1 THEN Half(n)
    ELSE HalvedOn(Halved(n, times \div 2), times - times \div 2)

RECURSIVE Doubled(_, _)
DoubledOn(n, times) == IF n = "0" THEN n ELSE Doubled(n, times)
Doubled(n, times) ==
    IF times = 0 THEN n
    ELSE IF times = 1 THEN Double(n)
    ELSE DoubledOn(Doubled(n, times \div 2), times - times \div 2)

\* n + 1 for an int that is not negative
RECURSIVE Succ(_)
Succ(n) ==
    IF n = "" THEN "1"
    ELSE IF SubSeq(n, Len(n), Len(n)) = "9" THEN Succ(SubSeq(n, 1, Len(n) - 1)) \o "0"
    ELSE SubSeq(n, 1, Len(n) - 1) \o Digits[DigitAt(n, Len(n)) + 2]

IsOdd(n) == DigitAt(n, Len(n)) % 2 = 1

\* a < b for two ints that are not negative
DigitsLess(a, b, differ) ==
    /\ differ # {}
    /\ DigitAt(a, CHOOSE i \in differ : \A j \in differ : i <= j)
         < DigitAt(b, CHOOSE i \in differ : \A j \in differ : i <= j)

IntLess(a, b) ==
    \/ Len(a) < Len(b)
    \/ /\ Len(a) = Len(b)
       /\ DigitsLess(a, b, {i \in 1..Len(a) : SubSeq(a, i, i) # SubSeq(b, i, i)})

\* n.bit_length(), from a power of two 2 ** bits that is not above n
RECURSIVE BitLength(_, _, _)
BitLength(n, power, bits) ==
    IF IntLess(n, Double(power)) THEN bits + 1 ELSE BitLength(n, Double(power), bits + 1)

\* a number of bits a number of that many decimal digits has at least: one
\* less than 3321 / 1000 < log2(10) for every digit but the first
LeastBits(digits) == ((digits - 1) * 3321) \div 1000

\* the float nearest to a whole number n, ties to the even one: n keeps its
\* first MANT_BITS bits, and one is added to them by the first bit dropped
\* when a later one is set or the last bit kept is.
\* half_up is n // 2 ** (times - 1), where times bits are dropped
RoundedUp(half_up, kept, more) == IF IsOdd(half_up) /\ (more \/ IsOdd(kept)) THEN Succ(kept) ELSE kept

NearestAt(n, half_up, times) ==
    Doubled(RoundedUp(half_up, Half(half_up), Doubled(half_up, times - 1) # n), times)

NearestOf(n, bits) ==
    IF bits <= MANT_BITS THEN n
    ELSE NearestAt(n, Halved(n, bits - MANT_BITS - 1), bits - MANT_BITS)

NearestFloat(n) ==
    IF Len(n) < 16 THEN n
    ELSE NearestOf(n, BitLength(n, Doubled("1", LeastBits(Len(n))), LeastBits(Len(n))))

RECURSIVE Zeros(_)
Zeros(n) ==
    IF n <= 0 THEN "" ELSE IF n = 1 THEN "0" ELSE Zeros(n \div 2) \o Zeros(n - n \div 2)

\* the digits of a float before its point: of digits, which have the point
\* after the first `point` of them
WholeDigits(digits, point) ==
    IF point <= 0 THEN "0"
    ELSE IF point <= Len(digits) THEN SubSeq(digits, 1, point)
    ELSE digits \o Zeros(point - Len(digits))

\* the parts of the repr of a finite float that is not negative: the digits
\* before the point, those after it, and the exponent (0 when none is
\* written)
FloatParts(mantissa, exponent) ==
    [whole |-> IF Find(mantissa, ".") = 0 THEN mantissa
               ELSE SubSeq(mantissa, 1, Find(mantissa, ".") - 1),
     fraction |-> IF Find(mantissa, ".") = 0 THEN ""
                  ELSE SubSeq(mantissa, Find(mantissa, ".") + 1, Len(mantissa)),
     exponent |-> IF exponent = "" THEN 0
                  ELSE IF StartsWith(exponent, "-") THEN -DigitsValue(Unsigned(exponent))
                  ELSE DigitsValue(Unsigned(exponent))]

ReprParts(text) ==
    IF Find(text, "e") = 0 THEN FloatParts(text, "")
    ELSE FloatParts(SubSeq(text, 1, Find(text, "e") - 1),
                    SubSeq(text, Find(text, "e") + 1, Len(text)))

\* int(x) of a float, from its repr: the whole part of a finite one, which
\* the repr writes out with all its digits below 1e16 and rounds to 17
\* digits above
Truncated(negative, parts) ==
    Canonical(negative,
              NearestFloat(Canonical(FALSE, WholeDigits(parts.whole \o parts.fraction,
                                                        Len(parts.whole) + parts.exponent))))

IntOfFloat(text) ==
    IF Unsigned(text) = "inf" THEN Raises("OverflowError")
    ELSE IF Unsigned(text) = "nan" THEN Raises("ValueError")
    ELSE Returns(Truncated(StartsWith(text, "-"), ReprParts(Unsigned(text))))

\* int(value)
IntOf(value) ==
    IF value.type = "int" THEN Returns(value.text)
    ELSE IF value.type = "bool" THEN Returns(IF value.text = "True" THEN "1" ELSE "0")
    ELSE IF value.type = "float" THEN IntOfFloat(value.text)
    ELSE IF value.type = "str" THEN IntOfStr(value.text)
    ELSE Raises("TypeError")

\* the validation of max_symbols in get_repo_map_tool: the default for what
\* int() rejects with a ValueError or a TypeError and for an int below 1;
\* another exception of int() goes on to the except clause of the tool
Validated(n) ==
    IF n.raised \in {"ValueError", "TypeError"} THEN Returns(ToString(DEFAULT_MAX_SYMBOLS))
    ELSE IF n.raised # "None" THEN n
    ELSE IF IntBelow(n.value, 1) THEN Returns(ToString(DEFAULT_MAX_SYMBOLS))
    ELSE n

\* max_symbols as get_repo_map_tool reads and validates it
ValidMaxSymbols(arg) ==
    Validated(IntOf(ArgumentsGet(arg, Arg("int", ToString(DEFAULT_MAX_SYMBOLS)))))

\* str(e) of the OverflowError of int()
INT_OVERFLOW == "cannot convert float infinity to integer"

\* _filter_code_files
FilterCodeFiles(tree) ==
    LET Keep(item) == /\ item.type = "blob"
                      /\ ~\E skip \in SKIP_PATTERNS : Contains(item.path, skip)
                      /\ IsSupported(item.path)
    IN  SelectSeq(tree, Keep)

\* mutant of CapFiles: the cut keeps one file more
CapFiles_OneMore(files) ==
    IF Len(files) > FILE_CAP THEN SubSeq(files, 1, FILE_CAP + 1) ELSE files

\* the files generate_map goes through: the first FILE_CAP of the list
CapFiles(files) ==
    IF Len(files) > FILE_CAP THEN SubSeq(files, 1, FILE_CAP) ELSE files

\* scores.get(name, 0.0)
ScoreOf(scores, name) == IF name \in DOMAIN scores THEN scores[name] ELSE FZero

\* sorted(items, key=..., reverse=True) on items paired with their keys:
\* descending by key, items with equal keys stay in their order
RECURSIVE InsertDesc(_, _)
InsertDesc(sorted, entry) ==
    IF sorted = <<>> THEN <<entry>>
    ELSE IF FLeq(entry.key, Head(sorted).key)
         THEN <<Head(sorted)>> \o InsertDesc(Tail(sorted), entry)
         ELSE <<entry>> \o sorted

RECURSIVE SortedDesc(_)
SortedDesc(entries) ==
    IF entries = <<>> THEN <<>>
    ELSE InsertDesc(SortedDesc(SubSeq(entries, 1, Len(entries) - 1)),
                    entries[Len(entries)])

Keyed(key, item) == [key |-> key, item |-> item]
Items(entries) == [i \in 1..Len(entries) |-> entries[i].item]

\* mutant of TopSymbols: the last max_symbols of the ranked list
TopSymbols_Last(ranked_symbols, max_symbols) ==
    SubSeq(ranked_symbols,
           Len(ranked_symbols) - SliceStop(max_symbols, Len(ranked_symbols)) + 1,
           Len(ranked_symbols))

\* ranked_symbols[:max_symbols]
TopSymbols(ranked_symbols, max_symbols) ==
    SubSeq(ranked_symbols, 1, SliceStop(max_symbols, Len(ranked_symbols)))

\* by_file of _format_map: the files in the order of their first symbol, each
\* with its (symbol, score) pairs in the order of the list
RECURSIVE GroupByFile(_, _)
GroupByFile(symbols, scores) ==
    IF symbols = <<>> THEN <<>>
    ELSE LET symbol == symbols[Len(symbols)]
             entry == [symbol |-> symbol, score |-> ScoreOf(scores, symbol.name)]
             groups == GroupByFile(SubSeq(symbols, 1, Len(symbols) - 1), scores)
             known == {i \in 1..Len(groups) : groups[i].file_path = symbol.file_path}
         IN  IF known = {}
             THEN Append(groups, [file_path |-> symbol.file_path, file_symbols |-> <<entry>>])
             ELSE [i \in 1..Len(groups) |->
                     IF i \in known
                     THEN [groups[i] EXCEPT !.file_symbols = Append(@, entry)]
                     ELSE groups[i]]

\* max(score for _, score in x[1])
FileScore(group) ==
    FMax({group.file_symbols[i].score : i \in 1..Len(group.file_symbols)})

\* mutant of SortedFiles: the files by ascending score
SortedFiles_Ascending(by_file) ==
    LET sorted == SortedDesc([i \in 1..Len(by_file) |->
                                Keyed(FileScore(by_file[i]), by_file[i])])
    IN  [i \in 1..Len(sorted) |-> sorted[Len(sorted) + 1 - i].item]

\* sorted_files of _format_map
SortedFiles(by_file) ==
    Items(SortedDesc([i \in 1..Len(by_file) |-> Keyed(FileScore(by_file[i]), by_file[i])]))

\* round(100 * score) as the format specification .2f rounds: to the nearest
\* hundredth of the float's exact value, to the even one on a tie
Hundredths(score) ==
    IF score.m[4] = 0 \/ -score.e > 5 * LIMB_BITS THEN 0
    ELSE IF score.e >= 0 THEN Value(Carry(Times(score.m, 100), 1, 0)) * 2 ^ score.e
    ELSE Value(Rounded(Carry(Times(score.m, 100), 1, 0) \o <<0, 0, 0, 0, 0>>, -score.e))

\* str(n) for a natural number n
RECURSIVE IntText(_)
IntText(n) ==
    IF n < 10 THEN SubSeq("0123456789", n + 1, n + 1)
    ELSE IntText(n \div 10) \o SubSeq("0123456789", (n % 10) + 1, (n % 10) + 1)

\* f"{score:.2f}"
Fixed2(score) ==
    IntText(Hundredths(score) \div 100) \o "."
    \o IntText((Hundredths(score) \div 10) % 10) \o IntText(Hundredths(score) % 10)

\* the lines of one file of the map: its path, then its symbols by score,
\* each as "  [score] signature"
FileLines(group) ==
    LET sorted_symbols ==
            Items(SortedDesc([i \in 1..Len(group.file_symbols) |->
                                Keyed(group.file_symbols[i].score, group.file_symbols[i])]))
    IN  <<[kind |-> "file", text |-> "\n" \o group.file_path, signature |-> "",
           shown |-> 0]>>
        \o [i \in 1..Len(sorted_symbols) |->
              [kind |-> "symbol",
               text |-> "  [" \o Fixed2(sorted_symbols[i].score) \o "] "
                        \o sorted_symbols[i].symbol.signature,
               signature |-> sorted_symbols[i].symbol.signature,
               shown |-> Hundredths(sorted_symbols[i].score)]]

RECURSIVE AllFileLines(_)
AllFileLines(sorted_files) ==
    IF sorted_files = <<>> THEN <<>>
    ELSE FileLines(Head(sorted_files)) \o AllFileLines(Tail(sorted_files))

TextLine(text) == [kind |-> "text", text |-> text, signature |-> "", shown |-> 0]

\* s * n
RECURSIVE RepeatStr(_, _)
RepeatStr(s, n) ==
    IF n = 0 THEN ""
    ELSE LET half == RepeatStr(s, n \div 2)
         IN  IF n % 2 = 0 THEN half \o half ELSE half \o half \o s

\* _format_map: the map as its sequence of lines, which "\n".join makes
\* the text of
FormatMap(symbols, scores) ==
    <<TextLine("Repository Map (Top Symbols by Importance)"),
      TextLine(RepeatStr("=", 60))>>
    \o AllFileLines(SortedFiles(GroupByFile(symbols, scores)))

\* the dict generate_map returns when it finds nothing to rank
\* a sentinel result without its message
EmptyResult_NoMessage(owner, repo, files, text) ==
    [repo |-> owner \o "/" \o repo, files |-> files, symbols |-> <<>>,
     map |-> <<>>]

EmptyResult(owner, repo, files, text) ==
    [repo |-> owner \o "/" \o repo, files |-> files, symbols |-> <<>>,
     map |-> <<TextLine(text)>>]

\* the dict generate_map returns for a computed map
MapResult(owner, repo, files, total_symbols, top_symbols, map_text) ==
    [repo |-> owner \o "/" \o repo, files |-> files,
     total_symbols |-> total_symbols, displayed_symbols |-> Len(top_symbols),
     map |-> map_text]

\* ranked_symbols of generate_map: the symbols sorted by score, descending
RankedSymbolsOf(symbols, scores) ==
    Items(SortedDesc([i \in 1..Len(symbols) |->
                        Keyed(ScoreOf(scores, symbols[i].name), symbols[i])]))

\* result.get(key, 0)
GetOr0(dict, key) == IF key \in DOMAIN dict THEN dict[key] ELSE 0

\* the tool's answer for a dict generate_map returned
ToolOutput(dict) ==
    [isError |-> FALSE, repo |-> dict.repo, files |-> dict.files,
     total_symbols |-> GetOr0(dict, "total_symbols"),
     displayed_symbols |-> GetOr0(dict, "displayed_symbols"),
     map |-> dict.map]

\* the tool's answer when it rejects the arguments or generate_map raises
ToolError(text) == [isError |-> TRUE, text |-> text]

\* an exception raised inside generate_map
Exception(message) == [exception |-> message]

\* the except clause of get_repo_map_tool leaves the exception uncaught
ToolCatch_Reraise(e) == e

\* the except clause of get_repo_map_tool
ToolCatch(e) == ToolError("Error generating repository map: " \o e.exception)

NoResponse == [isError |-> FALSE, text |-> ""]

---------------------------------------------------------------------------
(* GitHub as the mapper sees it: repositories, their commits, the tree and
   the file contents of each commit *)

Blob(path) == [path |-> path, type |-> "blob"]
Dir(path) == [path |-> path, type |-> "tree"]

\* a file of a commit: whether the contents endpoint serves it ("ok"), fails
\* on it ("gone") or may do either ("flaky"), whether its text parses, and
\* what the parser extracts from it
Body(fetch, parses, symbols, imports, calls) ==
    [fetch |-> fetch, parses |-> parses, symbols |-> symbols,
     imports |-> imports, calls |-> calls]

AppCommit1 ==
    [sha |-> "a1",
     tree |-> <<Dir("src"), Blob("src/app.py"), Blob("README.md"),
                Blob("src/util.js"), Blob("tests/test_app.py"),
                Blob("dist/app.min.js")>>,
     files |->
        ("src/app.py" :> Body("ok", TRUE,
              <<Sym("parse", "function", TRUE, "def parse(text)"),
                Sym("load", "function", TRUE, "def load(path)")>>,
              <<"import os">>, <<"print">>))
        @@ ("src/util.js" :> Body("ok", TRUE,
              <<Sym("helper", "function", FALSE, "function helper()"),
                Sym("Util", "class", TRUE, "class Util")>>,
              <<>>, <<>>))
        @@ ("README.md" :> Body("ok", FALSE, <<>>, <<>>, <<>>))
        @@ ("tests/test_app.py" :> Body("ok", TRUE,
              <<Sym("test_parse", "function", TRUE, "def test_parse()")>>, <<>>, <<>>))
        @@ ("dist/app.min.js" :> Body("ok", TRUE, <<>>, <<>>, <<>>))]

AppCommit2 ==
    [sha |-> "b2",
     tree |-> <<Dir("src"), Blob("src/app.py"), Blob("src/cli.ts"),
                Blob("src/util.js")>>,
     files |->
        ("src/app.py" :> Body("ok", TRUE,
              <<Sym("main", "function", TRUE, "def main()")>>,
              <<"import os">>, <<"helper">>))
        @@ ("src/cli.ts" :> Body("ok", TRUE,
              <<Sym("App", "class", TRUE, "class App")>>, <<>>, <<>>))
        @@ ("src/util.js" :> Body("ok", TRUE,
              <<Sym("helper", "function", FALSE, "function helper()"),
                Sym("Util", "class", TRUE, "class Util")>>,
              <<>>, <<>>))]

\* a repository whose files fail in every combination
FlakyCommit ==
    [sha |-> "f1",
     tree |-> <<Blob("a.py"), Blob("b.js"), Blob("c.ts"), Blob("d.py"), Blob("e.py")>>,
     files |->
        ("a.py" :> Body("flaky", TRUE,
              <<Sym("load", "function", TRUE, "def load()")>>,
              <<"import os">>, <<"open">>))
        @@ ("b.js" :> Body("ok", FALSE,
              <<Sym("broken", "function", FALSE, "function broken(")>>,
              <<"import x from 'x'">>, <<"x">>))
        @@ ("c.ts" :> Body("flaky", TRUE,
              <<Sym("Cli", "class", FALSE, "class Cli")>>,
              <<"import { load } from './a'">>, <<"load">>))
        @@ ("d.py" :> Body("gone", TRUE,
              <<Sym("lost", "function", TRUE, "def lost()")>>,
              <<"import sys">>, <<"exit">>))
        @@ ("e.py" :> Body("ok", TRUE,
              <<Sym("save", "function", TRUE, "def save()")>>,
              <<"import json">>, <<"dump">>))]

\* a repository without code files, and one whose code declares nothing
DocsCommit ==
    [sha |-> "d1",
     tree |-> <<Blob("README.md"), Blob("tests/test_x.py"), Dir("lib.py")>>,
     files |-> ("README.md" :> Body("ok", FALSE, <<>>, <<>>, <<>>))
               @@ ("tests/test_x.py" :> Body("ok", TRUE, <<>>, <<>>, <<>>))]

BareCommit ==
    [sha |-> "e1",
     tree |-> <<Blob("setup.py")>>,
     files |-> ("setup.py" :> Body("ok", TRUE, <<>>, <<"import setuptools">>, <<"setup">>))]

\* a repository none of whose code files yields anything: the first cannot
\* be fetched, the second and the third do not parse
DeadCommit ==
    [sha |-> "c1",
     tree |-> <<Blob("x.py"), Blob("y.ts"), Blob("z.js"), Blob("NOTES.txt")>>,
     files |->
        ("x.py" :> Body("gone", TRUE,
              <<Sym("lost", "function", TRUE, "def lost()")>>, <<"import sys">>, <<"exit">>))
        @@ ("y.ts" :> Body("ok", FALSE,
              <<Sym("Half", "class", TRUE, "class Half")>>, <<>>, <<"Half">>))
        @@ ("z.js" :> Body("ok", FALSE,
              <<Sym("broken", "function", FALSE, "function broken(")>>, <<>>, <<>>))
        @@ ("NOTES.txt" :> Body("ok", FALSE, <<>>, <<>>, <<>>))]

\* PythonParser: the definitions of a Python file as the syntax tree holds
\* them; the children of a class are the definitions of its block
\* return_type is the text of the child after "->", "" without one
PyTypedFunction(name, parameters, return_type) ==
    [type |-> "function_definition", name |-> name, parameters |-> parameters,
     return_type |-> return_type, superclasses |-> "", children |-> <<>>]

PyFunction(name, parameters) == PyTypedFunction(name, parameters, "")

PyClass(name, superclasses, block) ==
    [type |-> "class_definition", name |-> name, parameters |-> "",
     return_type |-> "", superclasses |-> superclasses, children |-> block]

\* _find_nodes_by_type over a list of sibling nodes: a node before its
\* children, the children before the next sibling
RECURSIVE FindNodesByType(_, _)
FindNodesByType(nodes, node_type) ==
    IF nodes = <<>> THEN <<>>
    ELSE LET node == Head(nodes)
         IN  (IF node.type = node_type THEN <<node>> ELSE <<>>)
             \o FindNodesByType(node.children, node_type)
             \o FindNodesByType(Tail(nodes), node_type)

\* _extract_function_symbol; parent_class is "" where the code passes None
ExtractFunctionSymbol(node, parent_class) ==
    LET name == node.name
        return_type == IF node.return_type = "" THEN ""
                       ELSE " -> " \o Strip(node.return_type)
        is_public == \/ ~StartsWith(name, "_")
                     \/ (StartsWith(name, "__") /\ EndsWith(name, "__"))
    IN  IF parent_class # ""
        THEN Sym(name, "method", is_public,
                 "def " \o parent_class \o "." \o name \o node.parameters
                    \o return_type)
        ELSE Sym(name, "function", is_public,
                 "def " \o name \o node.parameters \o return_type)

\* _extract_class_symbol
ExtractClassSymbol(node) ==
    Sym(node.name, "class", ~StartsWith(node.name, "_"),
        "class " \o node.name \o node.superclasses)

\* the class symbol followed by the symbols of the functions in its block
ClassWithMethods(class_node) ==
    LET methods == FindNodesByType(class_node.children, "function_definition")
    IN  <<ExtractClassSymbol(class_node)>>
        \o [k \in 1..Len(methods) |->
              ExtractFunctionSymbol(methods[k], class_node.name)]

RECURSIVE ClassSymbolsFrom(_, _)
ClassSymbolsFrom(classes, k) ==
    IF k > Len(classes) THEN <<>>
    ELSE ClassWithMethods(classes[k]) \o ClassSymbolsFrom(classes, k + 1)

\* extract_signatures: every function definition of the file, those in
\* classes included, then every class followed by its methods
ExtractSignatures(tree) ==
    LET functions == FindNodesByType(tree, "function_definition")
        classes == FindNodesByType(tree, "class_definition")
    IN  [k \in 1..Len(functions) |-> ExtractFunctionSymbol(functions[k], "")]
        \o ClassSymbolsFrom(classes, 1)

\* a.py declares main and calls Util.helper, b.py declares the class Util
\* with the method helper
UtilCommit ==
    [sha |-> "f1",
     tree |-> <<Blob("a.py"), Blob("b.py")>>,
     files |->
        ("a.py" :> Body("ok", TRUE,
              ExtractSignatures(<<PyFunction("main", "()")>>),
              <<"from b import Util">>, <<"Util.helper">>))
        @@ ("b.py" :> Body("ok", TRUE,
              ExtractSignatures(<<PyClass("Util", "", <<PyFunction("helper", "(x)")>>)>>),
              <<>>, <<>>))]

\* a repository of one file, which the contents endpoint serves or not
LoneCommit ==
    [sha |-> "b7",
     tree |-> <<Blob("only.py")>>,
     files |->
        ("only.py" :> Body("flaky", TRUE,
              ExtractSignatures(<<PyTypedFunction("only", "(x: int)", "int ")>>),
              <<>>, <<>>))]

\* repositories with n eligible files src/f1.py .. src/fn.py, of which few
\* declare anything; the tree has other entries among them
BigPath(i) == "src/f" \o ToString(i) \o ".py"

\* the file of a big repository the contents endpoint fails on
GoneFile == 37

Declaring == {1, GoneFile, FILE_CAP, FILE_CAP + 1}

BigBody(i) ==
    Body(IF i = GoneFile THEN "gone" ELSE "ok", TRUE,
         IF i \in Declaring
         THEN <<Sym("f" \o ToString(i), "function", TRUE, "def f" \o ToString(i) \o "()")>>
         ELSE <<>>,
         IF i = 2 THEN <<"import os">> ELSE <<>>,
         <<>>)

BigCommit(n) ==
    [sha |-> "c" \o ToString(n),
     tree |-> <<Dir("src")>>
              \o [i \in 1..50 |-> Blob(BigPath(i))]
              \o <<Blob("src/tests/test_f.py"), Blob("src/notes.txt")>>
              \o [i \in 1..(n - 50) |-> Blob(BigPath(50 + i))]
              \o <<Blob("README.md")>>,
     files |-> [p \in {BigPath(i) : i \in 1..n} |->
                  BigBody(CHOOSE i \in 1..n : BigPath(i) = p)]]

\* the sizes of the big repositories: around the file cap and well above it
TreeSizes == {FILE_CAP - 1, FILE_CAP, FILE_CAP + 1, FILE_CAP + 50}

BigName(n) == "big/r" \o ToString(n)

\* the commits of every repository, oldest first
Repositories ==
    ("acme/app" :> <<AppCommit1, AppCommit2>>)
    @@ ("acme/flaky" :> <<FlakyCommit>>)
    @@ ("acme/docs" :> <<DocsCommit>>)
    @@ ("acme/bare" :> <<BareCommit>>)
    @@ ("acme/util" :> <<UtilCommit>>)
    @@ ("acme/dead" :> <<DeadCommit>>)
    @@ ("acme/lone" :> <<LoneCommit>>)
    @@ [name \in {BigName(n) : n \in TreeSizes} |->
          <<BigCommit(CHOOSE n \in TreeSizes : BigName(n) = name)>>]

InitialHead == [name \in DOMAIN Repositories |-> 1]

---------------------------------------------------------------------------
(* github/rate_limiter.py: RateLimiter *)

GENERAL_LIMIT == 5000
SEARCH_LIMIT == 30
GENERAL_WINDOW == 3600
SEARCH_WINDOW == 60

\* the state _load_state builds at time t when there is no state file
DefaultState(t) ==
    [general |-> [remaining |-> GENERAL_LIMIT, reset |-> t + GENERAL_WINDOW,
                  limit |-> GENERAL_LIMIT],
     search |-> [remaining |-> SEARCH_LIMIT, reset |-> t + SEARCH_WINDOW,
                 limit |-> SEARCH_LIMIT]]

\* "if endpoint_type not in self.state: endpoint_type = 'general'"
EffectiveType(state, endpoint_type) ==
    IF endpoint_type \in DOMAIN state THEN endpoint_type ELSE "general"

\* the remaining budget a new window of the endpoint type starts with
ClassLimit(et) == IF et = "general" THEN GENERAL_LIMIT ELSE SEARCH_LIMIT

\* check_limit(endpoint_type) at current_time: the state it leaves, whether
\* it raised RateLimitError and whether it started a new window
CheckLimit(state, endpoint_type, current_time) ==
    LET et == EffectiveType(state, endpoint_type)
        due == current_time >= state[et].reset
        fresh == IF ~due THEN state
                 ELSE IF et = "general"
                      THEN [state EXCEPT ![et].remaining = GENERAL_LIMIT,
                                         ![et].reset = current_time + GENERAL_WINDOW]
                      ELSE [state EXCEPT ![et].remaining = SEARCH_LIMIT,
                                         ![et].reset = current_time + SEARCH_WINDOW]
    IN  IF fresh[et].remaining <= 0
        THEN [state |-> fresh, raised |-> TRUE, reset |-> due]
        ELSE [state |-> [fresh EXCEPT ![et].remaining = @ - 1],
              raised |-> FALSE, reset |-> due]

\* the number a short decimal text stands for
IntValue(n) ==
    IF StartsWith(n, "-") THEN 0 - DigitsValue(Unsigned(n)) ELSE DigitsValue(n)

\* "if header in headers: limit_info[field] = int(headers[header])" in the
\* try block: done is the entry so far and whether a statement has raised,
\* after which the block is left; int() raises ValueError
Assigned(done, field, headers, header) ==
    IF done.raised \/ header \notin DOMAIN headers THEN done
    ELSE IF IntOfStr(headers[header]).raised # "None"
    THEN [done EXCEPT !.raised = TRUE]
    ELSE [done EXCEPT
            !.limit_info[field] = IntValue(IntOfStr(headers[header]).value)]

\* update_from_headers(headers, endpoint_type): remaining, limit and reset
\* are assigned in this order; a header that is not an integer ends the try
\* block, so the fields before it are written and the others are not
UpdateFromHeaders(state, headers, endpoint_type) ==
    IF endpoint_type \notin DOMAIN state THEN state
    ELSE [state EXCEPT ![endpoint_type] =
            Assigned(
                Assigned(
                    Assigned([limit_info |-> state[endpoint_type], raised |-> FALSE],
                             "remaining", headers, "x-ratelimit-remaining"),
                    "limit", headers, "x-ratelimit-limit"),
                "reset", headers, "x-ratelimit-reset").limit_info]

---------------------------------------------------------------------------
(* github/client.py: GitHubClient *)

\* max_retries when the caller does not give it
DEFAULT_MAX_RETRIES == 3
\* the wait after a 429 without a retry-after header
DEFAULT_RETRY_AFTER == 60

\* what session.request gave: raised is a requests.RequestException (no
\* response), otherwise the response's status_code, text and headers
Response(status_code, text, headers) ==
    [raised |-> FALSE, status_code |-> status_code, text |-> text, headers |-> headers]

NoHeaders == [h \in {} |-> ""]

TransportError == [raised |-> TRUE, status_code |-> 0, text |-> "", headers |-> NoHeaders]

\* response.raise_for_status() raises HTTPError
IsHTTPError(status_code) == status_code >= 400 /\ status_code < 600

\* the branch of the loop body a response takes
ResponseKind(resp) ==
    IF resp.raised THEN "transport"
    ELSE IF resp.status_code = 403 /\ Contains(Lower(resp.text), "rate limit")
         THEN "403 rate limit"
    ELSE IF resp.status_code = 429 THEN "429"
    ELSE IF resp.status_code = 401 THEN "401"
    ELSE IF resp.status_code = 404 THEN "404"
    ELSE IF IsHTTPError(resp.status_code) THEN "http error"
    ELSE "ok"

\* response.headers.get(header, default) handed to int(); the default is
\* an int
HeaderInt(headers, header, default) ==
    IF header \in DOMAIN headers THEN IntOfStr(headers[header])
    ELSE Returns(ToString(default))

\* the 429 branch: int() of retry-after comes first, for every attempt, and
\* its ValueError is no requests.RequestException; time.sleep raises
\* ValueError on a negative length
TooManyRequests(retry_after, more) ==
    IF retry_after.raised # "None"
    THEN [end |-> "raise", error |-> retry_after.raised, sleep |-> 0]
    ELSE IF ~more THEN [end |-> "raise", error |-> "RateLimitError", sleep |-> 0]
    ELSE IF StartsWith(retry_after.value, "-")
    THEN [end |-> "raise", error |-> "ValueError", sleep |-> 0]
    ELSE [end |-> "next", error |-> "None", sleep |-> IntValue(retry_after.value)]

\* one pass of "for attempt in range(max_retries)" once session.request has
\* answered: the pass returns the response, raises, or sleeps and goes on
\* to the next attempt
Iteration(resp, attempt, max_retries) ==
    LET more == attempt < max_retries - 1
        kind == ResponseKind(resp)
    IN  IF kind \in {"transport", "http error"}
        THEN IF more THEN [end |-> "next", error |-> "None", sleep |-> 2 ^ attempt]
             ELSE [end |-> "raise",
                   error |-> IF kind = "transport" THEN "ConnectionError" ELSE "HTTPError",
                   sleep |-> 0]
        ELSE IF kind = "403 rate limit"
        THEN [end |-> "raise",
              error |-> IF HeaderInt(resp.headers, "x-ratelimit-reset", 0).raised # "None"
                        THEN "ValueError" ELSE "RateLimitError",
              sleep |-> 0]
        ELSE IF kind = "429"
        THEN TooManyRequests(HeaderInt(resp.headers, "retry-after", DEFAULT_RETRY_AFTER),
                             more)
        ELSE IF kind = "401"
        THEN [end |-> "raise", error |-> "AuthenticationError", sleep |-> 0]
        ELSE IF kind = "404"
        THEN [end |-> "raise", error |-> "NotFoundError", sleep |-> 0]
        ELSE [end |-> "return", error |-> "None", sleep |-> 0]

\* get_tree's "except NotFoundError: if tree_sha == 'HEAD'"
TreeFallback(tree_sha, error) == error = "NotFoundError" /\ tree_sha = "HEAD"

\* no _make_request call yet; attempt is the loop variable, attempts counts
\* the HTTP requests sent, checks the check_limit calls, consumed what they
\* took from remaining, last is the branch the last answer took
NoRequestCall ==
    [pc |-> "idle", caller |-> "", endpoint_type |-> "", max_retries |-> 0,
     attempt |-> 0, attempts |-> 0, checks |-> 0, consumed |-> 0,
     last |-> "none", error |-> "None"]

\* no get_tree call yet
NoTreeCall ==
    [pc |-> "idle", arg |-> "", tree_sha |-> "", fetches |-> <<>>, error |-> "None"]

\* no check_limit yet; op is the last operation on the limiter, passed
\* counts, per endpoint type, the calls let through in the current window,
\* start is remaining at its beginning (for the window under way when the
\* state was loaded: at the load) and clean says that no header has changed
\* the entry since
NoCheck(state) ==
    [calls |-> 0, op |-> "", endpoint_type |-> "", at |-> 0, before |-> state,
     raised |-> FALSE, reset |-> FALSE,
     passed |-> [general |-> 0, search |-> 0],
     start |-> [general |-> state.general.remaining, search |-> state.search.remaining],
     clean |-> [general |-> TRUE, search |-> TRUE]]

\* a client that has sent nothing, with the state its RateLimiter loaded
ClientWith(state) ==
    /\ rl_state = state
    /\ rl_last = NoCheck(state)
    /\ mr = NoRequestCall
    /\ gt = NoTreeCall

\* a client whose RateLimiter found no state file
IdleClient == ClientWith(DefaultState(0))

---------------------------------------------------------------------------
(* get_repo_map_tool and generate_map, step by step *)

Request(owner, repo, max_symbols) ==
    [owner |-> owner, repo |-> repo, max_symbols |-> max_symbols]

NoRequest == Request("", "", Missing)

\* the commit a tree request names: the default branch's head for "HEAD"
CommitOf(name, sha, heads) ==
    IF sha = "HEAD" THEN Repositories[name][heads[name]]
    ELSE Repositories[name][CHOOSE c \in 1..Len(Repositories[name]) :
                               Repositories[name][c].sha = sha]

\* mutant of FileContribution: a file whose text does not parse still adds
\* its imports
FileContribution_Partial(fetched, parser, body, file_path) ==
    IF ~fetched
    THEN [outcome |-> "fetch_failed", symbols |-> <<>>, imports |-> <<>>, calls |-> <<>>]
    ELSE IF parser = "None"
    THEN [outcome |-> "no_parser", symbols |-> <<>>, imports |-> <<>>, calls |-> <<>>]
    ELSE IF ~body.parses
    THEN [outcome |-> "parse_failed", symbols |-> <<>>, imports |-> body.imports,
          calls |-> <<>>]
    ELSE [outcome |-> "ok",
          symbols |-> [i \in 1..Len(body.symbols) |->
                         [body.symbols[i] EXCEPT !.file_path = file_path]],
          imports |-> body.imports, calls |-> body.calls]

\* what one file adds to the accumulators: nothing when its content cannot
\* be fetched or no parser is to be had; what parse() returns otherwise,
\* which is an empty result when the text does not parse
FileContribution(fetched, parser, body, file_path) ==
    IF ~fetched
    THEN [outcome |-> "fetch_failed", symbols |-> <<>>, imports |-> <<>>, calls |-> <<>>]
    ELSE IF parser = "None"
    THEN [outcome |-> "no_parser", symbols |-> <<>>, imports |-> <<>>, calls |-> <<>>]
    ELSE IF ~body.parses
    THEN [outcome |-> "parse_failed", symbols |-> <<>>, imports |-> <<>>, calls |-> <<>>]
    ELSE [outcome |-> "ok",
          symbols |-> [i \in 1..Len(body.symbols) |->
                         [body.symbols[i] EXCEPT !.file_path = file_path]],
          imports |-> body.imports, calls |-> body.calls]

\* no cache lookup was made
NoLookup ==
    [looked |-> FALSE, hit |-> FALSE, name |-> "", commit |-> 0, path |-> "", age |-> 0]

NoRanking == [scores |-> NoScores, ranked_symbols |-> <<>>, top_symbols |-> <<>>]

\* one entry of api_log: an upstream or cache operation and whether it
\* returned (TRUE) or raised (FALSE)
Op(op, ok) == [op |-> op, ok |-> ok]

\* get_tree swallows its failure and answers an empty tree
FetchTree_Swallow(tree_ok, tree) ==
    [raised |-> FALSE, tree |-> IF tree_ok THEN tree ELSE <<>>]

\* github_client.get_tree as generate_map sees it: the tree, or the
\* exception that generate_map raises again
FetchTree(tree_ok, tree) ==
    IF tree_ok THEN [raised |-> FALSE, tree |-> tree]
    ELSE [raised |-> TRUE, tree |-> <<>>]

\* str(e) of the RateLimitError check_limit raises at current_time
RefusedText(state, current_time) ==
    "GitHub general API rate limit exceeded. Reset in "
        \o ToString(state.general.reset - current_time) \o " seconds."

\* str(e) of the NotFoundError of a 404 on a repository
NotFoundText(name) == "Resource not found: https://api.github.com/repos/" \o name

\* str(e) of the RateLimitError of a 403 rate-limit answer that has no
\* x-ratelimit-reset header
LimitedText == "Rate limit exceeded. Reset in 0 seconds."

\* the state of a request that has returned
Returned(dict, answer) ==
    /\ result' = dict
    /\ response' = answer
    /\ pc' = "done"

\* get_repo_map_tool up to the cache lookup of generate_map.  get_repo_info
\* and the branch lookup are one _make_request each: check_limit refuses the
\* call or takes a unit, and a call let through is answered at once, with no
\* x-ratelimit headers: 200, 404 or 403, on which _make_request neither
\* waits nor tries again.  A get_repo_info let through and failing is
\* answered 404, or 403 rate limit exceeded; the branch lookup gives the branch with its commit, an answer
\* without "commit" (commit_sha is the default of .get, "HEAD") or raises
\* (commit_sha is "HEAD")
Start(args) ==
    /\ pc \in {"idle", "done"}
    /\ n_requests < budget
    /\ n_requests' = n_requests + 1
    /\ req' = [args EXCEPT !.max_symbols =
                   IF args.owner = "" \/ args.repo = ""
                   THEN ArgumentsGet(args.max_symbols,
                                     Arg("int", ToString(DEFAULT_MAX_SYMBOLS))).text
                   ELSE ValidMaxSymbols(args.max_symbols).value]
    /\ code_files' = <<>>
    /\ idx' = 1
    /\ all_symbols' = <<>>
    /\ all_imports' = <<>>
    /\ all_calls' = <<>>
    /\ fetch_log' = <<>>
    /\ ranking' = NoRanking
    /\ previous' = [looked |-> lookup.looked, hit |-> lookup.hit,
                     cache_key |-> cache_key, result |-> result]
    /\ UNCHANGED <<rl_last, mr, gt, factory_vars, rank_vars, env_vars, cache, parser_cache,
                   stored_by>>
    /\ IF args.owner = "" \/ args.repo = ""
       THEN /\ Returned(<<>>, ToolError("Error: 'owner' and 'repo' are required parameters"))
            /\ commit_sha' = ""
            /\ cache_key' = ""
            /\ lookup' = NoLookup
            /\ api_log' = <<>>
            /\ rl_state' = rl_state
       ELSE IF ValidMaxSymbols(args.max_symbols).raised # "None"
       THEN /\ Returned(<<>>, ToolCatch(Exception(INT_OVERFLOW)))
            /\ commit_sha' = ""
            /\ cache_key' = ""
            /\ lookup' = NoLookup
            /\ api_log' = <<>>
            /\ rl_state' = rl_state
       ELSE LET name == args.owner \o "/" \o args.repo
                info == CheckLimit(rl_state, "general", now)
                branch_info == CheckLimit(info.state, "general", now)
            IN  \E status \in {200, 403, 404}, branch \in {"commit", "no commit", "raised"} :
                  IF info.raised \/ name \notin DOMAIN Repositories \/ status # 200
                  THEN /\ Returned(<<>>,
                                   ToolCatch(Exception(IF info.raised
                                                       THEN RefusedText(info.state, now)
                                                       ELSE IF status = 403
                                                       THEN LimitedText
                                                       ELSE NotFoundText(name))))
                       /\ commit_sha' = ""
                       /\ cache_key' = ""
                       /\ lookup' = NoLookup
                       /\ api_log' = <<Op("get_repo_info", FALSE)>>
                       /\ rl_state' = info.state
                  ELSE LET sha == IF branch = "commit"
                                  THEN Repositories[name][head[name]].sha
                                  ELSE "HEAD"
                           key == args.owner \o "_" \o args.repo \o "@" \o sha
                           cached == CacheGet(cache, key, CACHE_TTL, now)
                       IN  /\ branch_info.raised => branch = "raised"
                           /\ rl_state' = branch_info.state
                           /\ commit_sha' = sha
                           /\ cache_key' = key
                           /\ api_log' = <<Op("get_repo_info", TRUE), Op("get", branch # "raised"),
                                            Op("cache.get", TRUE)>>
                           /\ lookup' = [looked |-> TRUE, hit |-> cached # <<>>,
                                          name |-> name, commit |-> head[name],
                                          path |-> CachePath(key),
                                          age |-> IF CachePath(key) \in DOMAIN cache
                                                  THEN now - cache[CachePath(key)].cached_at
                                                  ELSE 0]
                           /\ IF cached # <<>>
                              THEN Returned(cached, ToolOutput(cached[1]))
                              ELSE /\ pc' = "tree"
                                   /\ result' = <<>>
                                   /\ response' = NoResponse

\* generate_map from get_tree to the start of the loop over the files;
\* check_limit refuses the request of get_tree or takes a unit for it, and a
\* request let through is answered with the tree or with 403 rate limit
\* exceeded
GetTree ==
    /\ pc = "tree"
    /\ UNCHANGED <<rl_last, mr, gt, factory_vars, rank_vars, env_vars, cache, parser_cache,
                   n_requests,
                   req, commit_sha, cache_key, idx, all_symbols, all_imports,
                   all_calls, fetch_log, ranking, stored_by, lookup, previous>>
    /\ \E tree_ok \in BOOLEAN :
          LET name == req.owner \o "/" \o req.repo
              call == CheckLimit(rl_state, "general", now)
              got == FetchTree(tree_ok, CommitOf(name, commit_sha, head).tree)
              found == FilterCodeFiles(got.tree)
          IN  /\ call.raised => ~tree_ok
              /\ rl_state' = call.state
              /\ api_log' = Append(api_log, Op("get_tree", tree_ok))
              /\ IF got.raised
                 THEN /\ Returned(<<>>,
                                  ToolCatch(Exception(
                                      "Failed to get repository tree: "
                                          \o IF call.raised
                                             THEN RefusedText(call.state, now)
                                             ELSE LimitedText)))
                      /\ code_files' = <<>>
                 ELSE IF found = <<>>
                 THEN LET dict == EmptyResult(req.owner, req.repo, 0,
                                      "No supported code files found in repository.")
                      IN  /\ Returned(<<dict>>, ToolOutput(dict))
                          /\ code_files' = <<>>
                 ELSE /\ code_files' = CapFiles(found)
                      /\ pc' = "files"
                      /\ UNCHANGED <<result, response>>

\* one round of the loop over code_files: fetch the content from the default
\* branch as it is now, get the parser, parse, accumulate; check_limit
\* refuses the request of get_file_content, which then fails, or takes a
\* unit for it
ProcessFile ==
    /\ pc = "files"
    /\ idx <= Len(code_files)
    /\ UNCHANGED <<rl_last, mr, gt, factory_vars, rank_vars, env_vars, cache, n_requests, pc, req,
                   commit_sha,
                   cache_key, code_files, ranking, stored_by, lookup, api_log,
                   result, response, previous>>
    /\ \E served \in BOOLEAN :
          LET name == req.owner \o "/" \o req.repo
              file_path == code_files[idx].path
              files == Repositories[name][head[name]].files
              body == IF file_path \in DOMAIN files THEN files[file_path]
                      ELSE Body("gone", FALSE, <<>>, <<>>, <<>>)
              call == CheckLimit(rl_state, "general", now)
              fetched == /\ ~call.raised
                         /\ body.fetch = "ok" \/ (body.fetch = "flaky" /\ served)
              got == GetParser(file_path, parser_cache, broken)
              parser == IF fetched THEN got.parser ELSE "None"
              part == FileContribution(fetched, parser, body, file_path)
          IN  /\ rl_state' = call.state
              /\ parser_cache' = IF fetched THEN got.instances ELSE parser_cache
              /\ all_symbols' = all_symbols \o part.symbols
              /\ all_imports' = all_imports \o part.imports
              /\ all_calls' = all_calls \o part.calls
              /\ fetch_log' = Append(fetch_log,
                                [path |-> file_path, outcome |-> part.outcome,
                                 commit |-> head[name]])
              /\ idx' = idx + 1

\* generate_map between rank_symbols and format_map: the scores, every
\* symbol with its score by descending score, and the first max_symbols
RankingOf(symbols, symbol_scores, max_symbols) ==
    LET ranked_symbols == RankedSymbolsOf(symbols, symbol_scores)
    IN  [scores |-> symbol_scores, ranked_symbols |-> ranked_symbols,
         top_symbols |-> TopSymbols(ranked_symbols, max_symbols)]

\* what the loop of generate_map adds for one path of a repository: nothing,
\* or what parse() returns on the content a commit has at the path
PartsOf(name, file_path) ==
    LET commits == {c \in 1..Len(Repositories[name]) :
                       file_path \in DOMAIN Repositories[name][c].files}
        parts == {FileContribution(fetched, parser, Repositories[name][c].files[file_path],
                                   file_path) :
                     fetched \in BOOLEAN, parser \in {"None", ParserClass(file_path)},
                     c \in commits}
    IN  {[symbols |-> p.symbols, imports |-> p.imports, calls |-> p.calls] : p \in parts}
        \cup {[symbols |-> <<>>, imports |-> <<>>, calls |-> <<>>]}

\* all_symbols, all_imports and all_calls as the loop can leave them after
\* files[lo..hi]
RECURSIVE Assembled(_, _, _, _)
Assembled(name, files, lo, hi) ==
    IF lo > hi THEN {[symbols |-> <<>>, imports |-> <<>>, calls |-> <<>>]}
    ELSE IF lo = hi THEN PartsOf(name, files[lo].path)
    ELSE LET mid == (lo + hi) \div 2
         IN  {[symbols |-> a.symbols \o b.symbols, imports |-> a.imports \o b.imports,
               calls |-> a.calls \o b.calls] :
                 a \in Assembled(name, files, lo, mid),
                 b \in Assembled(name, files, mid + 1, hi)}

\* the arguments generate_map can call rank_symbols with on the repositories
MapInputs ==
    UNION {UNION {Assembled(name, CapFiles(FilterCodeFiles(Repositories[name][c].tree)), 1,
                            Len(CapFiles(FilterCodeFiles(Repositories[name][c].tree)))) :
                     c \in 1..Len(Repositories[name])} :
              name \in DOMAIN Repositories}

\* self.ranker.rank_symbols(all_symbols, all_imports, all_calls) of
\* generate_map, on each of these arguments: rank_symbols is a function of
\* its arguments on a new SymbolRanker, and the table holds its value for
\* each (@@ makes the table an explicit one, computed once)
MapRanked ==
    [in \in MapInputs |-> RankSymbols(NewRanker, in.symbols, in.imports, in.calls)]
        @@ <<>>

\* generate_map after the loop: rank, sort, cut, format, cache, return
Finish ==
    /\ pc = "files"
    /\ idx > Len(code_files)
    /\ IF all_symbols = <<>>
       THEN LET dict == EmptyResult(req.owner, req.repo, Len(code_files),
                                    "No symbols found in repository.")
            IN  /\ Returned(<<dict>>, ToolOutput(dict))
                /\ UNCHANGED <<cache, ranking, stored_by, api_log>>
       ELSE /\ ranking' =
                 RankingOf(all_symbols,
                           MapRanked[[symbols |-> all_symbols, imports |-> all_imports,
                                      calls |-> all_calls]].scores,
                           req.max_symbols)
            /\ result' = <<MapResult(req.owner, req.repo, Len(code_files),
                                     Len(all_symbols), ranking'.top_symbols,
                                     FormatMap(ranking'.top_symbols, ranking'.scores))>>
            /\ cache' = CacheSet(cache, cache_key, result', now)
            /\ api_log' = Append(api_log, Op("cache.set", TRUE))
            /\ stored_by' = [p \in DOMAIN stored_by \cup {CachePath(cache_key)} |->
                                IF p = CachePath(cache_key)
                                THEN [name |-> lookup.name, commit |-> lookup.commit]
                                ELSE stored_by[p]]
            /\ response' = ToolOutput(result'[1])
            /\ pc' = "done"
    /\ UNCHANGED <<client_vars, factory_vars, rank_vars, env_vars, parser_cache, n_requests, req, commit_sha,
                   cache_key, code_files, idx, all_symbols, all_imports, all_calls,
                   fetch_log, lookup, previous>>

\* FileCache.invalidate(key), called by the program between two requests
Invalidate(key) ==
    /\ pc \in {"idle", "done"}
    /\ cache' = CacheInvalidate(cache, key)
    /\ UNCHANGED <<client_vars, factory_vars, rank_vars, env_vars, parser_cache, n_requests,
                   pc, req, commit_sha, cache_key, code_files, idx, all_symbols,
                   all_imports, all_calls, fetch_log, ranking, stored_by, lookup,
                   api_log, result, response, previous>>

\* FileCache.clear(), called by the program between two requests
Clear ==
    /\ pc \in {"idle", "done"}
    /\ cache' = CacheClear(cache)
    /\ UNCHANGED <<client_vars, factory_vars, rank_vars, env_vars, parser_cache, n_requests,
                   pc, req, commit_sha, cache_key, code_files, idx, all_symbols,
                   all_imports, all_calls, fetch_log, ranking, stored_by, lookup,
                   api_log, result, response, previous>>

\* a commit is pushed to the default branch of a repository clients ask for
Push(name) ==
    /\ \E r \in catalog : r.owner \o "/" \o r.repo = name
    /\ name \in DOMAIN head
    /\ head[name] < Len(Repositories[name])
    /\ head' = [head EXCEPT ![name] = @ + 1]
    /\ UNCHANGED <<client_vars, factory_vars, rank_vars, catalog, budget, broken, now, tool_vars>>

\* time passes between two requests (a request is answered within the
\* second): a cache lifetime, or a second more, after which an entry cached
\* at the start has expired and the window of the limiter is over
Tick(seconds) ==
    /\ pc \in {"idle", "done"}
    /\ now + seconds <= CACHE_TTL + 1
    /\ now' = now + seconds
    /\ UNCHANGED <<client_vars, factory_vars, rank_vars, catalog, budget, broken, head, tool_vars>>

---------------------------------------------------------------------------
(* Specifications of the repository map tool *)

\* the requests of Spec: one repository, asked for with several max_symbols
AppRequests ==
    {Request("acme", "app", Arg("int", "2")), Request("acme", "app", Missing)}

\* the requests of SpecOnce: one request on a cold cache, of any kind
OnceRequests ==
    {Request("big", "r" \o ToString(n), Missing) : n \in TreeSizes}
    \cup {Request("acme", "flaky", Arg("int", "2")), Request("acme", "flaky", Arg("str", "many")),
          Request("acme", "docs", Arg("int", "0")), Request("acme", "bare", Arg("int", "-3")),
          Request("acme", "util", Missing), Request("acme", "dead", Arg("int", "5")),
          Request("acme", "ghost", Arg("int", "5")), Request("", "app", Arg("int", "1")),
          Request("acme", "", Arg("int", "1")),
          Request("acme", "util", Arg("str", " 1_0 ")),
          Request("acme", "util", Arg("str", "99999999999")),
          Request("acme", "util", Arg("float", "2.7")),
          Request("acme", "util", Arg("float", "1e+23")),
          Request("acme", "util", Arg("bool", "True")),
          Request("acme", "util", Arg("NoneType", "None")),
          Request("acme", "util", Arg("float", "inf")),
          Request("", "util", Arg("float", "inf"))}

\* before any direct call of ParserFactory
\* before holds _parser_cache as the call found it; made counts, per class,
\* the instances its constructor has returned and serial tells which of them
\* the call returned (0: none)
NoProbe ==
    [calls |-> 0, file_path |-> "", parser |-> "None", supported |-> FALSE,
     before |-> {}, serial |-> 0,
     made |-> [PythonParser |-> 0, JavaScriptParser |-> 0, TypeScriptParser |-> 0]]

\* no request was served before
NoPrevious == [looked |-> FALSE, hit |-> FALSE, cache_key |-> "", result |-> <<>>]

\* the tool, its cache and the parser factory before any request
IdleMap ==
    /\ pf = NoProbe
    /\ cache = NoCache
    /\ parser_cache = {}
    /\ n_requests = 0
    /\ pc = "idle"
    /\ req = [NoRequest EXCEPT !.max_symbols = ToString(DEFAULT_MAX_SYMBOLS)]
    /\ commit_sha = ""
    /\ cache_key = ""
    /\ code_files = <<>>
    /\ idx = 1
    /\ all_symbols = <<>>
    /\ all_imports = <<>>
    /\ all_calls = <<>>
    /\ fetch_log = <<>>
    /\ ranking = NoRanking
    /\ stored_by = NoCache
    /\ lookup = NoLookup
    /\ api_log = <<>>
    /\ result = <<>>
    /\ response = NoResponse
    /\ previous = NoPrevious

IdleTool == IdleMap /\ IdleClient

NoCall == [self |-> NewRanker]

\* a SymbolRanker on which rank_symbols has not run
FreshRanker ==
    /\ rk_out = RankSymbols(NewRanker, <<>>, <<>>, <<>>)
    /\ ranker = NewRanker
    /\ rk_calls = 0
    /\ rk_call = NoCall

RankOff ==
    /\ rk_pc = "off"
    /\ rk_in = [symbols |-> <<>>, imports |-> <<>>, calls |-> <<>>]
    /\ FreshRanker

Init ==
    /\ RankOff
    /\ IdleTool
    /\ catalog = AppRequests
    /\ budget = MaxRequests
    /\ broken = {}
    /\ head = InitialHead
    /\ now = 0

\* the keys generate_map makes for the requests of the catalog
CacheKeys ==
    {r.owner \o "_" \o r.repo \o "@" \o sha :
        r \in catalog, sha \in {"HEAD", AppCommit1.sha, AppCommit2.sha}}

Next ==
    \/ \E args \in catalog : Start(args)
    \/ GetTree
    \/ ProcessFile
    \/ Finish
    \/ \E name \in DOMAIN Repositories : Push(name)
    \/ \E seconds \in {CACHE_TTL, CACHE_TTL + 1} : Tick(seconds)
    \/ \E key \in CacheKeys : Invalidate(key)
    \/ Clear

Spec == Init /\ [][Next]_vars

\* the requests of SpecCache: a repository whose map is cached, one whose
\* only file may not be served and one without code files
CacheRequests ==
    {Request("acme", "app", Missing), Request("acme", "lone", Missing),
     Request("acme", "docs", Missing)}

InitCache ==
    /\ RankOff
    /\ IdleTool
    /\ catalog = CacheRequests
    /\ budget = MaxRequests
    /\ broken = {}
    /\ head = InitialHead
    /\ now = 0

\* the mapper alone uses the cache directory
NextCache ==
    \/ \E args \in catalog : Start(args)
    \/ GetTree
    \/ ProcessFile
    \/ Finish
    \/ \E name \in DOMAIN Repositories : Push(name)
    \/ \E seconds \in {CACHE_TTL, CACHE_TTL + 1} : Tick(seconds)

SpecCache == InitCache /\ [][NextCache]_vars

\* the units the limiter has left when the one request of SpecOnce comes:
\* a full window, or too few for the request
OnceBudgets == {GENERAL_LIMIT, 0, 1, 2, 3, 4}

InitOnce ==
    /\ RankOff
    /\ IdleMap
    /\ \E remaining \in OnceBudgets :
          ClientWith([DefaultState(0) EXCEPT !.general.remaining = remaining])
    /\ catalog = OnceRequests
    /\ budget = 1
    /\ broken \in {{}, {"TypeScriptParser"}}
    /\ head = InitialHead
    /\ now = 0

NextOnce ==
    \/ \E args \in catalog : Start(args)
    \/ GetTree
    \/ ProcessFile
    \/ Finish

SpecOnce == InitOnce /\ [][NextOnce]_vars

---------------------------------------------------------------------------
(* Specification of ParserFactory called directly, on one class-level cache *)

\* how many calls one behaviour makes
MaxFactoryCalls == 2

ParserClasses == {EXTENSION_MAP[i][2] : i \in 1..Len(EXTENSION_MAP)}

FactoryPaths ==
    {"test.py", "test.js", "test.ts", "test.cpp", "src/app.jsx", "lib/x.mjs",
     "lib/x.cjs", "src/view.tsx", "src/m.mts", "src/c.cts", "types/a.d.ts",
     "README.md", "a.PY", "a.pyc", "a.py.bak", "Makefile", "a.json", "a.tsv", ""}

InitFactory ==
    /\ RankOff
    /\ IdleTool
    /\ catalog = {}
    /\ budget = 0
    /\ broken \in SUBSET ParserClasses
    /\ head = InitialHead
    /\ now = 0

\* ParserFactory.get_parser(file_path=...) and is_supported(file_path=...)
\* on the same path
Probe(file_path) ==
    /\ pf.calls < MaxFactoryCalls
    /\ LET got == GetParser(file_path, parser_cache, broken)
           built == got.parser # "None" /\ got.parser \notin parser_cache
           made == IF built THEN [pf.made EXCEPT ![got.parser] = @ + 1] ELSE pf.made
       IN  /\ parser_cache' = got.instances
           /\ pf' = [calls |-> pf.calls + 1, file_path |-> file_path,
                     parser |-> got.parser, supported |-> IsSupported(file_path),
                     before |-> parser_cache,
                     serial |-> IF got.parser = "None" THEN 0 ELSE made[got.parser],
                     made |-> made]
    /\ UNCHANGED <<client_vars, rank_vars, env_vars, cache, n_requests, pc, req, commit_sha,
                   cache_key, code_files, idx, all_symbols, all_imports, all_calls,
                   fetch_log, ranking, stored_by, lookup, api_log, result, response,
                   previous>>

NextFactory == \E file_path \in FactoryPaths : Probe(file_path)

SpecFactory == InitFactory /\ [][NextFactory]_vars

---------------------------------------------------------------------------
(* Specification of rank_symbols as a function of its arguments *)

InitRank ==
    /\ IdleTool
    /\ catalog = {}
    /\ budget = 0
    /\ broken = {}
    /\ head = InitialHead
    /\ now = 0
    /\ rk_pc = "input"
    /\ rk_in \in {[symbols |-> l, imports |-> c.imports, calls |-> c.calls] :
                    <<l, c>> \in SymbolLists \X ImportCallCases}
    /\ FreshRanker

\* rank_symbols on rk_in
Rank ==
    /\ rk_pc = "input"
    /\ rk_out' = RankSymbols(ranker, rk_in.symbols, rk_in.imports, rk_in.calls)
    /\ rk_call' = [self |-> ranker]
    /\ ranker' = RankerAfter(ranker)
    /\ rk_calls' = rk_calls + 1
    /\ rk_pc' = "ranked"
    /\ UNCHANGED <<rk_in, map_vars, factory_vars, client_vars>>

NextRank == Rank

SpecRank == InitRank /\ [][NextRank]_vars

---------------------------------------------------------------------------
(* Specification of RateLimiter called directly *)

\* how many operations on the limiter one behaviour makes
MaxLimiterCalls == 3

\* what the state file can hold of one endpoint type
LimitInfo(remaining, reset, limit) == [remaining |-> remaining, reset |-> reset, limit |-> limit]

\* states _load_state can find in the state file, which check_limit and
\* update_from_headers wrote: a window that is due or not, a limit that is
\* the class constant or the one a response gave (60 an hour without a
\* token, 10 a minute for a search), remaining anywhere up to it
LoadedStates ==
    {[general |-> LimitInfo(g[1], gr, g[2]),
      search |-> LimitInfo(s[1], SEARCH_WINDOW, s[2])] :
        <<g, gr, s>> \in
            {<<0, GENERAL_LIMIT>>, <<1, GENERAL_LIMIT>>, <<GENERAL_LIMIT, GENERAL_LIMIT>>,
             <<0, 60>>, <<59, 60>>}
            \X {0, GENERAL_WINDOW}
            \X {<<0, SEARCH_LIMIT>>, <<1, SEARCH_LIMIT>>, <<SEARCH_LIMIT, SEARCH_LIMIT>>,
                <<9, 10>>}}

\* the x-ratelimit headers of a response
UsedHeaders ==
    ("x-ratelimit-remaining" :> "4999") @@ ("x-ratelimit-limit" :> "5000")
        @@ ("x-ratelimit-reset" :> "3600")

ExhaustedHeaders ==
    ("x-ratelimit-remaining" :> "0") @@ ("x-ratelimit-limit" :> "60")
        @@ ("x-ratelimit-reset" :> "1800")

\* headers a proxy has cut: the limit is empty
CutHeaders ==
    ("x-ratelimit-remaining" :> "58") @@ ("x-ratelimit-limit" :> "")
        @@ ("x-ratelimit-reset" :> "7200")

RateHeaders == {NoHeaders, UsedHeaders, ExhaustedHeaders, CutHeaders}

\* rl_last after a check_limit that gave chk: a reset opens a window, in
\* which nothing has passed and no header has been seen
AfterCheck(chk, endpoint_type) ==
    LET et == EffectiveType(rl_state, endpoint_type)
        window == IF chk.reset
                  THEN [rl_last EXCEPT
                          !.passed[et] = 0,
                          !.start[et] = ClassLimit(et),
                          !.clean[et] = TRUE]
                  ELSE rl_last
    IN  [window EXCEPT !.op = "check_limit", !.endpoint_type = endpoint_type,
                       !.at = now, !.before = rl_state, !.raised = chk.raised,
                       !.reset = chk.reset,
                       !.passed[et] = IF chk.raised THEN @ ELSE @ + 1]

\* rl_last after update_from_headers
AfterHeaders(headers, endpoint_type) ==
    IF endpoint_type \in DOMAIN rl_state
    THEN [rl_last EXCEPT
            !.op = "update_from_headers",
            !.clean[endpoint_type] =
                @ /\ UpdateFromHeaders(rl_state, headers, endpoint_type) = rl_state]
    ELSE [rl_last EXCEPT !.op = "update_from_headers"]

client_frame == <<rank_vars, catalog, budget, broken, head, tool_vars, factory_vars>>

InitLimiter ==
    /\ RankOff
    /\ IdleMap
    /\ catalog = {}
    /\ budget = 0
    /\ broken = {}
    /\ head = InitialHead
    /\ now = 0
    /\ rl_state \in LoadedStates
    /\ rl_last = NoCheck(rl_state)
    /\ mr = NoRequestCall
    /\ gt = NoTreeCall

\* RateLimiter.check_limit(endpoint_type)
CheckLimitCall(endpoint_type) ==
    /\ rl_last.calls < MaxLimiterCalls
    /\ LET chk == CheckLimit(rl_state, endpoint_type, now)
       IN  /\ rl_state' = chk.state
           /\ rl_last' = [AfterCheck(chk, endpoint_type) EXCEPT !.calls = @ + 1]
    /\ UNCHANGED <<client_frame, now, mr, gt>>

\* RateLimiter.update_from_headers(headers, endpoint_type)
UpdateCall(headers, endpoint_type) ==
    /\ rl_last.calls < MaxLimiterCalls
    /\ rl_state' = UpdateFromHeaders(rl_state, headers, endpoint_type)
    /\ rl_last' = [AfterHeaders(headers, endpoint_type) EXCEPT !.calls = @ + 1]
    /\ UNCHANGED <<client_frame, now, mr, gt>>

\* time passes between two calls
Elapse(seconds) ==
    /\ rl_last.calls < MaxLimiterCalls
    /\ now' = now + seconds
    /\ rl_last' = [rl_last EXCEPT !.calls = @ + 1]
    /\ UNCHANGED <<client_frame, rl_state, mr, gt>>

NextLimiter ==
    \/ \E endpoint_type \in {"general", "search", "graphql"} :
          CheckLimitCall(endpoint_type)
    \/ \E headers \in RateHeaders, endpoint_type \in {"general", "search", "graphql"} :
          UpdateCall(headers, endpoint_type)
    \/ \E seconds \in {SEARCH_WINDOW, GENERAL_WINDOW} : Elapse(seconds)

SpecLimiter == InitLimiter /\ [][NextLimiter]_vars

---------------------------------------------------------------------------
(* Specification of one GitHubClient call: _make_request or get_tree *)

\* Retry-After as a date, the other form HTTP gives it
HTTP_DATE == "Wed, 21 Oct 2015 07:28:00 GMT"

\* the headers of the responses of SpecClient
ClientHeaders == {NoHeaders, UsedHeaders, ExhaustedHeaders}

\* what the API may answer to one HTTP request
Responses ==
    {TransportError}
    \cup {Response(429, "", "retry-after" :> "1"),
          Response(429, "", "retry-after" :> HTTP_DATE),
          Response(429, "", "retry-after" :> "-1"),
          Response(403, "API rate limit exceeded", "x-ratelimit-reset" :> "")}
    \cup UNION {{Response(200, "{}", h),
                 Response(401, "", h),
                 Response(403, "API rate limit exceeded", h),
                 Response(403, "Forbidden", h),
                 Response(404, "", h),
                 Response(429, "", h),
                 Response(500, "", h)} : h \in ClientHeaders}

\* the refs get_tree is called with
TreeRefs == {"HEAD", "main", "develop", "9fceb02"}

\* the beginning of _make_request up to the first HTTP request:
\* check_limit, then the loop is entered unless range(max_retries) is empty
BeginRequest(caller, endpoint_type, max_retries) ==
    LET chk == CheckLimit(rl_state, endpoint_type, now)
        et == EffectiveType(rl_state, endpoint_type)
        granted == IF chk.reset THEN ClassLimit(et) ELSE rl_state[et].remaining
        call == [NoRequestCall EXCEPT !.caller = caller,
                                      !.endpoint_type = endpoint_type,
                                      !.max_retries = max_retries,
                                      !.checks = 1,
                                      !.consumed = granted - chk.state[et].remaining]
    IN  /\ rl_state' = chk.state
        /\ rl_last' = AfterCheck(chk, endpoint_type)
        /\ mr' = IF chk.raised
                 THEN [call EXCEPT !.pc = "raised", !.error = "RateLimitError"]
                 ELSE IF max_retries <= 0
                      THEN [call EXCEPT !.pc = "raised", !.error = "Exception"]
                      ELSE [call EXCEPT !.pc = "attempt"]

InitClient ==
    /\ RankOff
    /\ IdleMap
    /\ catalog = {}
    /\ budget = 0
    /\ broken = {}
    /\ head = InitialHead
    /\ now = 0
    /\ rl_state \in {state \in LoadedStates :
                        /\ state.general.remaining \in {0, GENERAL_LIMIT}
                        /\ state.search.remaining \in {0, SEARCH_LIMIT}}
    /\ rl_last = NoCheck(rl_state)
    /\ mr = NoRequestCall
    /\ gt = NoTreeCall

\* GitHubClient._make_request(method, url, endpoint_type, max_retries)
MakeRequestCall(endpoint_type, max_retries) ==
    /\ mr.pc = "idle"
    /\ gt.pc = "idle"
    /\ BeginRequest("direct", endpoint_type, max_retries)
    /\ UNCHANGED <<client_frame, now, gt>>

\* one pass of the retry loop: session.request answers resp, the limiter
\* takes the headers of a response, and the pass returns, raises or sleeps
Attempt(resp) ==
    /\ mr.pc = "attempt"
    /\ LET it == Iteration(resp, mr.attempt, mr.max_retries)
       IN  /\ mr' = [mr EXCEPT
                       !.attempts = @ + 1,
                       !.last = ResponseKind(resp),
                       !.error = it.error,
                       !.attempt = IF it.end = "next" THEN @ + 1 ELSE @,
                       !.pc = IF it.end = "next" THEN "attempt"
                              ELSE IF it.end = "raise" THEN "raised" ELSE "returned"]
           /\ now' = now + it.sleep
    /\ IF resp.raised
       THEN UNCHANGED <<rl_state, rl_last>>
       ELSE /\ rl_state' = UpdateFromHeaders(rl_state, resp.headers, mr.endpoint_type)
            /\ rl_last' = AfterHeaders(resp.headers, mr.endpoint_type)
    /\ UNCHANGED <<client_frame, gt>>

\* GitHubClient.get_tree(owner, repo, tree_sha) up to the first HTTP request
\* of self.get(endpoint, recursive="1")
GetTreeCall(tree_sha) ==
    /\ mr.pc = "idle"
    /\ gt.pc = "idle"
    /\ gt' = [NoTreeCall EXCEPT !.pc = "fetch", !.arg = tree_sha, !.tree_sha = tree_sha]
    /\ BeginRequest("get_tree", "general", DEFAULT_MAX_RETRIES)
    /\ UNCHANGED <<client_frame, now>>

\* get_tree once self.get has returned or raised: return the tree, call
\* get_tree again for main, or let the exception through
GetTreeResume ==
    /\ gt.pc = "fetch"
    /\ mr.pc \in {"returned", "raised"}
    /\ LET fetches == Append(gt.fetches, [tree_sha |-> gt.tree_sha, error |-> mr.error])
       IN  IF mr.pc = "returned"
           THEN /\ gt' = [gt EXCEPT !.pc = "returned", !.fetches = fetches]
                /\ UNCHANGED <<rl_state, rl_last, mr>>
           ELSE IF TreeFallback(gt.tree_sha, mr.error)
           THEN /\ gt' = [gt EXCEPT !.tree_sha = "main", !.fetches = fetches]
                /\ BeginRequest("get_tree", "general", DEFAULT_MAX_RETRIES)
           ELSE /\ gt' = [gt EXCEPT !.pc = "raised", !.fetches = fetches,
                                    !.error = mr.error]
                /\ UNCHANGED <<rl_state, rl_last, mr>>
    /\ UNCHANGED <<client_frame, now>>

NextClient ==
    \/ \E endpoint_type \in {"general", "search"},
          max_retries \in 0..DEFAULT_MAX_RETRIES :
          MakeRequestCall(endpoint_type, max_retries)
    \/ \E resp \in Responses : Attempt(resp)
    \/ \E tree_sha \in TreeRefs : GetTreeCall(tree_sha)
    \/ GetTreeResume

SpecClient == InitClient /\ [][NextClient]_vars

---------------------------------------------------------------------------
(* Claims about rank_symbols, checked under SpecRank *)

RankedSymbols == rk_in.symbols
RankedNames == {RankedSymbols[i].name : i \in 1..Len(RankedSymbols)}
IsEntryPoint(symbol) == Lower(symbol.name) \in ENTRY_POINTS

\* C2: for a non-empty symbol list every returned score lies in [0,1] and
\* some symbol has score exactly 1.0, after a successful centrality
\* computation and after the fallback alike.
C2_NormalizationBound ==
    (rk_pc = "ranked" /\ RankedSymbols # <<>>) =>
        LET s == rk_out.scores
        IN  /\ \A n \in DOMAIN s : FLeq(FZero, s[n]) /\ FLeq(s[n], FloatOf(1))
            /\ \E i \in 1..Len(RankedSymbols) :
                  /\ RankedSymbols[i].name \in DOMAIN s
                  /\ s[RankedSymbols[i].name] = FloatOf(1)

\* a fallback run whose scores span the whole interval
C2_Witness ==
    /\ rk_pc = "ranked"
    /\ rk_out.failed
    /\ \E n, m \in DOMAIN rk_out.scores :
          rk_out.scores[n] = FZero /\ rk_out.scores[m] = FloatOf(1)

\* a raw score times the boost factors the claim gives one symbol, each
\* factor once
ClaimedScore(symbol, raw) ==
    LET e == IF symbol.is_exported THEN FMul(raw, EXPORTED_BOOST) ELSE raw
        p == IF IsEntryPoint(symbol) THEN FMul(e, ENTRY_POINT_BOOST) ELSE e
    IN  IF symbol.type = "class" THEN FMul(p, CLASS_BOOST) ELSE p

\* C3: before normalization the score of every symbol is its raw centrality
\* score times 1.5 if exported, times 2.0 if its lower-cased name is an entry
\* point, times 1.2 if it is a class, each factor applied at most once, also
\* when several symbols share a name.
C3_BoostOncePerSymbol ==
    rk_pc = "ranked" =>
        \A i \in 1..Len(RankedSymbols) :
            LET n == RankedSymbols[i].name
            IN  rk_out.boosted_scores[n]
                   = ClaimedScore(RankedSymbols[i], rk_out.pagerank_scores[n])

\* a symbol differs from b in one boosted characteristic only, in a's favour
FavouredOver(a, b) ==
    \/ /\ a.is_exported /\ ~b.is_exported
       /\ a.type = b.type /\ IsEntryPoint(a) = IsEntryPoint(b)
    \/ /\ IsEntryPoint(a) /\ ~IsEntryPoint(b)
       /\ a.type = b.type /\ a.is_exported = b.is_exported
    \/ /\ a.type = "class" /\ b.type # "class"
       /\ a.is_exported = b.is_exported /\ IsEntryPoint(a) = IsEntryPoint(b)

\* C4: of two symbols of one input with the same raw centrality score that
\* differ only in being exported (or only in having an entry-point name, or
\* only in being a class), the favoured one gets a final score at least as
\* high as the other.
C4_BoostMonotone ==
    rk_pc = "ranked" =>
        \A i, j \in 1..Len(RankedSymbols) :
            LET a == RankedSymbols[i]
                b == RankedSymbols[j]
            IN  (/\ rk_out.pagerank_scores[a.name] = rk_out.pagerank_scores[b.name]
                 /\ FavouredOver(a, b))
                => FLeq(rk_out.scores[b.name], rk_out.scores[a.name])

\* C5: when the centrality computation fails, rank_symbols still returns a
\* score for every symbol name, every raw score is 1.0, and an exported class
\* with an entry-point name scores strictly above a non-exported function
\* whose name is no entry point.
C5_FallbackOrder ==
    (rk_pc = "ranked" /\ rk_out.failed) =>
        /\ DOMAIN rk_out.scores = RankedNames
        /\ \A n \in RankedNames : rk_out.pagerank_scores[n] = FloatOf(1)
        /\ \A i, j \in 1..Len(RankedSymbols) :
              LET a == RankedSymbols[i]
                  b == RankedSymbols[j]
              IN  (/\ a.is_exported /\ a.type = "class" /\ IsEntryPoint(a)
                   /\ ~b.is_exported /\ b.type = "function" /\ ~IsEntryPoint(b))
                  => FLess(rk_out.scores[b.name], rk_out.scores[a.name])

\* the text before the first "." of a name
DotPrefix(name) == SubSeq(name, 1, Find(name, ".") - 1)

\* C10: a method whose name has a "." and whose text before the first "."
\* names a class symbol has the edge method -> class with weight 3.0 in the
\* built graph; a method whose prefix names no class has no containment edge;
\* with no calls and no imports these are the only edges.
C10_ContainmentEdge ==
    rk_pc = "ranked" =>
        LET edges == rk_out.graph.edges
            methods == {i \in 1..Len(RankedSymbols) :
                          /\ RankedSymbols[i].type = "method"
                          /\ Contains(RankedSymbols[i].name, ".")}
            owned == {i \in methods : \E j \in 1..Len(RankedSymbols) :
                          /\ RankedSymbols[j].type = "class"
                          /\ RankedSymbols[j].name = DotPrefix(RankedSymbols[i].name)}
            contains == {[src |-> RankedSymbols[i].name,
                          dst |-> DotPrefix(RankedSymbols[i].name),
                          weight |-> 3, type |-> "inheritance"] : i \in owned}
        IN  /\ contains \subseteq edges
            /\ \A e \in edges : e.type = "inheritance" => e \in contains
            /\ (rk_in.calls = <<>> /\ rk_in.imports = <<>>) => edges = contains

\* the symbols {class Foo, method Foo.bar} alone, with the edge Foo.bar -> Foo
C10_Witness ==
    /\ rk_pc = "ranked"
    /\ rk_in.calls = <<>> /\ rk_in.imports = <<>>
    /\ RankedNames = {"Foo", "Foo.bar"}
    /\ rk_out.graph.edges =
          {[src |-> "Foo.bar", dst |-> "Foo", weight |-> 3, type |-> "inheritance"]}

---------------------------------------------------------------------------
(* Claims about the repository map tool, checked under Spec and SpecOnce *)

\* the request has returned a map or a "nothing found" answer
Answered == pc = "done" /\ ~response.isError

\* the request has returned a map it computed itself
Computed == pc = "done" /\ ranking # NoRanking

\* the indexes of the symbol lines of a rendered map
SymbolLines(map) == {i \in 1..Len(map) : map[i].kind = "symbol"}

\* C1: every answer of get_repo_map, in any sequence of requests sharing one
\* cache, displays at most the request's max_symbols symbols: displayed_symbols
\* is at most max_symbols and the map has at most max_symbols symbol lines.
C1_MaxSymbolsCap ==
    Answered =>
        /\ ~IntBelow(req.max_symbols, response.displayed_symbols)
        /\ ~IntBelow(req.max_symbols, Cardinality(SymbolLines(response.map)))

\* the eligible files of the tree the request fetched
RequestName == req.owner \o "/" \o req.repo
EligibleFiles == FilterCodeFiles(CommitOf(RequestName, commit_sha, head).tree)

Min(a, b) == IF a < b THEN a ELSE b

\* C6: of a tree with n eligible files generate_map fetches exactly the first
\* min(n, 100), in tree order, and reports files = min(n, 100).
C6_FileCap ==
    (pc \in {"files", "done"} /\ commit_sha # "") =>
        LET eligible == EligibleFiles
            n == Len(eligible)
            paths == [i \in 1..n |-> eligible[i].path]
        IN  /\ Len(fetch_log) <= Min(n, 100)
            /\ [i \in 1..Len(fetch_log) |-> fetch_log[i].path]
                  = SubSeq(paths, 1, Len(fetch_log))
            /\ (pc = "files" /\ code_files # <<>>) => Len(fetch_log) = idx - 1
            /\ (Answered /\ result # <<>> /\ result[1].files > 0) =>
                  /\ Len(fetch_log) = Min(n, 100)
                  /\ result[1].files = Min(n, 100)
                  /\ response.files = Min(n, 100)
            /\ (Answered /\ result # <<>> /\ result[1].files = 0) => n = 0

\* 150 eligible files: 100 fetched, files=100
C6_Witness ==
    /\ Answered
    /\ req.repo = "r150"
    /\ Len(EligibleFiles) = 150
    /\ Len(fetch_log) = 100
    /\ response.files = 100

\* the file a log entry fetched
LoggedBody(entry) == Repositories[RequestName][entry.commit].files[entry.path]

\* parts[lo] \o ... \o parts[hi]
RECURSIVE ConcatRange(_, _, _)
ConcatRange(parts, lo, hi) ==
    IF lo > hi THEN <<>>
    ELSE IF lo = hi THEN parts[lo]
    ELSE LET mid == (lo + hi) \div 2
         IN  ConcatRange(parts, lo, mid) \o ConcatRange(parts, mid + 1, hi)

\* what the files logged as processed without failure declare, import and
\* call, file after file
ExpectedSymbols(log) ==
    LET Part(i) == LET body == LoggedBody(log[i])
                   IN  IF log[i].outcome = "ok"
                       THEN [k \in 1..Len(body.symbols) |->
                               [body.symbols[k] EXCEPT !.file_path = log[i].path]]
                       ELSE <<>>
    IN  ConcatRange([i \in 1..Len(log) |-> Part(i)], 1, Len(log))

ExpectedImports(log) ==
    ConcatRange([i \in 1..Len(log) |->
                   IF log[i].outcome = "ok" THEN LoggedBody(log[i]).imports ELSE <<>>],
                1, Len(log))

ExpectedCalls(log) ==
    ConcatRange([i \in 1..Len(log) |->
                   IF log[i].outcome = "ok" THEN LoggedBody(log[i]).calls ELSE <<>>],
                1, Len(log))

\* C7: whichever of the processed files fail to be fetched or parsed, the
\* symbols, imports and calls accumulated for the ranker are the concatenation
\* in tree order of the complete contributions of the files that did not
\* fail, and the request ends without an error.
C7_GracefulSkip ==
    (pc \in {"files", "done"} /\ fetch_log # <<>>) =>
        /\ \A i \in 1..Len(fetch_log) :
              LET body == LoggedBody(fetch_log[i])
              IN  /\ body.fetch = "gone" => fetch_log[i].outcome = "fetch_failed"
                  /\ (body.fetch # "gone" /\ ~body.parses)
                        => fetch_log[i].outcome # "ok"
        /\ all_symbols = ExpectedSymbols(fetch_log)
        /\ all_imports = ExpectedImports(fetch_log)
        /\ all_calls = ExpectedCalls(fetch_log)
        /\ pc = "done" =>
              /\ ~response.isError
              /\ result # <<>>
              /\ Computed =>
                    /\ Len(ranking.ranked_symbols) = Len(all_symbols)
                    /\ \A i \in 1..Len(all_symbols) :
                          \E j \in 1..Len(all_symbols) :
                              ranking.ranked_symbols[j] = all_symbols[i]

\* a map computed although a fetch failed, a text did not parse and a file
\* was gone
C7_Witness ==
    /\ Computed
    /\ req.repo = "flaky"
    /\ [i \in 1..Len(fetch_log) |-> fetch_log[i].outcome]
          = <<"fetch_failed", "parse_failed", "ok", "fetch_failed", "ok">>
    /\ Len(all_symbols) = 2
    /\ all_imports = <<"import { load } from './a'", "import json">>

\* the path of the file a line of the map stands under
FileOfLine(map, i) ==
    LET above == {j \in 1..i : map[j].kind = "file"}
        j == CHOOSE k \in above : \A l \in above : l <= k
    IN  SubSeq(map[j].text, 2, Len(map[j].text))

\* the score of the displayed symbol a symbol line of a computed map renders
LineScore(map, i) ==
    LET symbol == CHOOSE s \in {ranking.top_symbols[k] : k \in 1..Len(ranking.top_symbols)} :
                     s.file_path = FileOfLine(map, i) /\ s.signature = map[i].signature
    IN  ScoreOf(ranking.scores, symbol.name)

\* the highest score among the displayed symbols of a file
FileMax(map, path) ==
    FMax({LineScore(map, i) : i \in {j \in SymbolLines(map) : FileOfLine(map, j) = path}})

\* the highest rendered score under a file
FileMaxShown(map, path) ==
    MaxOf({map[i].shown : i \in {j \in SymbolLines(map) : FileOfLine(map, j) = path}})

\* C8: in the rendered map the files come in descending order of the maximum
\* score among their displayed symbols, and the symbols of a file in
\* descending order of score; the rendered scores descend likewise.
C8_AssemblyOrdering ==
    Answered =>
        LET map == response.map
            lines == SymbolLines(map)
        IN  /\ \A i, j \in {k \in 1..Len(map) : map[k].kind = "file"} :
                  i # j => map[i].text # map[j].text
            /\ \A i, j \in lines :
                  (i < j /\ FileOfLine(map, i) = FileOfLine(map, j))
                     => map[i].shown >= map[j].shown
            /\ \A i, j \in lines :
                  i < j => FileMaxShown(map, FileOfLine(map, i))
                              >= FileMaxShown(map, FileOfLine(map, j))
            /\ Computed =>
                  /\ \A i, j \in lines :
                        (i < j /\ FileOfLine(map, i) = FileOfLine(map, j))
                           => FLeq(LineScore(map, j), LineScore(map, i))
                  /\ \A i, j \in lines :
                        i < j => FLeq(FileMax(map, FileOfLine(map, j)),
                                      FileMax(map, FileOfLine(map, i)))

\* a computed map of two files: the first holds the top symbol and a symbol
\* scoring below those of the second, whose two symbols score the same
C8_Witness ==
    /\ Computed
    /\ LET map == response.map
       IN  /\ Cardinality(SymbolLines(map)) = 4
           /\ \E i, j \in SymbolLines(map) :
                 /\ i < j
                 /\ FileOfLine(map, i) # FileOfLine(map, j)
                 /\ FLess(LineScore(map, i), LineScore(map, j))
           /\ \E i, j \in SymbolLines(map) :
                 /\ i < j
                 /\ FileOfLine(map, i) = FileOfLine(map, j)
                 /\ LineScore(map, i) = LineScore(map, j)

\* how often x occurs in a list
Count(list, x) == Cardinality({i \in 1..Len(list) : list[i] = x})

\* C9: a map computed from total_symbols symbols displays exactly
\* min(max_symbols, total_symbols) of them, reports that number as
\* displayed_symbols, and leaves out no symbol scoring strictly above a
\* displayed one.
C9_TopK ==
    Computed =>
        LET top == ranking.top_symbols
            shown == IF IntBelow(req.max_symbols, Len(all_symbols))
                     THEN DigitsValue(req.max_symbols) ELSE Len(all_symbols)
            Score(s) == ScoreOf(ranking.scores, s.name)
        IN  /\ result[1].total_symbols = Len(all_symbols)
            /\ response.total_symbols = Len(all_symbols)
            /\ Len(top) = shown
            /\ result[1].displayed_symbols = shown
            /\ response.displayed_symbols = shown
            /\ Cardinality(SymbolLines(response.map)) = shown
            /\ \A i \in 1..Len(top) : Count(top, top[i]) <= Count(all_symbols, top[i])
            /\ \A i \in 1..Len(all_symbols) :
                  Count(top, all_symbols[i]) < Count(all_symbols, all_symbols[i])
                     => \A j \in 1..Len(top) : FLeq(Score(all_symbols[i]), Score(top[j]))

\* a map cut to 2 of 4 symbols, a symbol left out scoring as the last shown
C9_Witness ==
    /\ Computed
    /\ req.max_symbols = "2"
    /\ Len(all_symbols) = 4
    /\ Len(ranking.top_symbols) = 2
    /\ \E i \in 1..Len(all_symbols) :
          /\ Count(ranking.top_symbols, all_symbols[i]) = 0
          /\ ScoreOf(ranking.scores, all_symbols[i].name)
                = ScoreOf(ranking.scores, ranking.top_symbols[2].name)

---------------------------------------------------------------------------
(* Further claims about rank_symbols, checked under SpecRank *)

\* the symbol names some call expression names by its last dotted component
CalledNames ==
    {CallName(rk_in.calls[k]) : k \in 1..Len(rk_in.calls)} \cap RankedNames

\* C11: in the built graph every symbol X that a call expression names by its
\* last dotted component has an edge Y -> X of weight 2.0 and kind call from
\* every symbol Y of another name, and a symbol no call names has no
\* incoming call edge.
C11_CallEdges ==
    rk_pc = "ranked" =>
        LET edges == rk_out.graph.edges
        IN  /\ \A x \in CalledNames : \A y \in RankedNames \ {x} :
                  [src |-> y, dst |-> x, weight |-> 2, type |-> "call"] \in edges
            /\ \A e \in edges : e.type = "call" => e.dst \in CalledNames

---------------------------------------------------------------------------
(* Further claims about the repository map tool *)

\* C12: a request is answered from the cache only with a map stored by a
\* request on the same owner and repository at the same commit, and only
\* while the entry is no older than the TTL.
C12_CacheKeyed ==
    (pc = "done" /\ lookup.hit) =>
        /\ lookup.path \in DOMAIN stored_by
        /\ stored_by[lookup.path].name = lookup.name
        /\ stored_by[lookup.path].commit = lookup.commit
        /\ lookup.age <= CACHE_TTL

\* the two shapes of a tool result: the text of a map, or an error text
IsToolResult(r) ==
    \/ DOMAIN r = {"isError", "text"}
    \/ DOMAIN r = {"isError", "repo", "files", "total_symbols", "displayed_symbols", "map"}

\* C13: every request ends with a tool result, never with an exception; a
\* request without owner or without repo ends with an error result and
\* has made no upstream or cache operation; a request whose map generation
\* raised ends with an error result
C13_NoEscape ==
    pc = "done" =>
        /\ IsToolResult(response)
        /\ (req.owner = "" \/ req.repo = "") =>
               /\ response.isError
               /\ api_log = <<>>
               /\ fetch_log = <<>>
               /\ ~lookup.looked
        /\ result = <<>> => response.isError

C13_Witness ==
    /\ pc = "done"
    /\ result = <<>>
    /\ response.isError
    /\ Len(api_log) = 4
    /\ api_log[4] = Op("get_tree", FALSE)

\* the request met a failing get_repo_info or a failing get_tree
Aborted ==
    \E k \in 1..Len(api_log) :
        api_log[k].op \in {"get_repo_info", "get_tree"} /\ ~api_log[k].ok

\* the centrality computation of the request failed and the ranker fell back
CentralityFailed ==
    /\ all_symbols # <<>>
    /\ RankSymbols(NewRanker, all_symbols, all_imports, all_calls).failed

\* C14: a request with owner and repo, and a max_symbols that int() turned
\* into a number or that was replaced by the default, whose get_repo_info or
\* get_tree failed ends with an error result, has fetched and parsed no file,
\* has ranked nothing and has written nothing to the cache; every other such
\* request, whatever failed for its files or in the ranker and however
\* little it found, ends with a result that is not an error
C14_AbortOnFailure ==
    (pc = "done" /\ req.owner # "" /\ req.repo # "" /\ req.max_symbols # "") =>
        IF Aborted
        THEN /\ response.isError
             /\ result = <<>>
             /\ fetch_log = <<>>
             /\ all_symbols = <<>>
             /\ ranking = NoRanking
             /\ \A k \in 1..Len(api_log) : api_log[k].op # "cache.set"
        ELSE ~response.isError

C14_Witness ==
    /\ pc = "done"
    /\ req.repo = "flaky"
    /\ api_log = <<Op("get_repo_info", FALSE)>>
    /\ response.isError

\* every file of the request was fetched and parsed
AllFilesParsed ==
    /\ Len(fetch_log) = Len(code_files)
    /\ \A k \in 1..Len(fetch_log) : fetch_log[k].outcome = "ok"

\* C15: in the map computed from both files of the repository of a.py (main,
\* calling Util.helper) and b.py (class Util with the method helper), the
\* score of main is greater than the score of helper
C15_MainAboveHelper ==
    (pc = "done" /\ req.repo = "util" /\ ranking # NoRanking /\ AllFilesParsed) =>
        FLess(ranking.scores["helper"], ranking.scores["main"])

\* C17: for an empty symbol list, whatever the imports and the calls,
\* rank_symbols returns the empty mapping and _build_dependency_graph builds
\* a graph without nodes and without edges (checked under SpecRank)
C17_EmptySymbols ==
    (rk_pc = "ranked" /\ rk_in.symbols = <<>>) =>
        LET graph == BuildDependencyGraph(rk_in.symbols, rk_in.imports, rk_in.calls)
        IN  /\ DOMAIN rk_out.scores = {}
            /\ rk_out.scores = NoScores
            /\ ~rk_out.failed
            /\ graph.nodes = {}
            /\ graph.edges = {}

C17_Witness ==
    /\ rk_pc = "ranked"
    /\ rk_in.symbols = <<>>
    /\ rk_in.imports # <<>>
    /\ rk_in.calls # <<>>
    /\ DOMAIN rk_out.scores = {}

\* C20: when the boosted scores are not all equal, every name gets
\* (score - min) / (max - min): a name with the minimum gets 0, a name with
\* the maximum gets 1 and the order of the scores is kept; when they are all
\* equal, a single symbol included, every name gets 1 (checked under SpecRank)
C20_MinMaxScaling ==
    (rk_pc = "ranked" /\ RankedSymbols # <<>>) =>
        LET boosted == rk_out.boosted_scores
            s == rk_out.scores
            values == {boosted[n] : n \in RankedNames}
            min_score == FMin(values)
            max_score == FMax(values)
        IN  /\ DOMAIN s = RankedNames
            /\ IF min_score = max_score
               THEN \A n \in RankedNames : s[n] = FloatOf(1)
               ELSE /\ \A n \in RankedNames :
                          s[n] = FDiv(FSub(boosted[n], min_score),
                                      FSub(max_score, min_score))
                    /\ \A n \in RankedNames :
                          /\ boosted[n] = min_score => s[n] = FZero
                          /\ boosted[n] = max_score => s[n] = FloatOf(1)
                    /\ \A n, m \in RankedNames :
                          FLess(boosted[n], boosted[m]) <=> FLess(s[n], s[m])

C20_Witness ==
    /\ rk_pc = "ranked"
    /\ ~rk_out.failed
    /\ \E n, m, k \in RankedNames :
          /\ FLess(rk_out.boosted_scores[n], rk_out.boosted_scores[m])
          /\ FLess(rk_out.boosted_scores[m], rk_out.boosted_scores[k])
          /\ rk_out.scores[n] = FZero
          /\ FLess(FZero, rk_out.scores[m])
          /\ FLess(rk_out.scores[m], FloatOf(1))
          /\ rk_out.scores[k] = FloatOf(1)

\* the names the import statements of the run name
ImportedNames ==
    UNION {{ExtractImportedNames(rk_in.imports[k])[i] :
               i \in 1..Len(ExtractImportedNames(rk_in.imports[k]))} :
           k \in 1..Len(rk_in.imports)}

\* C21: every edge of the built graph is a call edge of weight 2.0, an
\* import edge of weight 1.0 or a containment edge (type "inheritance") of
\* weight 3.0; an edge is a self-loop exactly when it is an import edge, and
\* then its node is named by an import statement; no ordered pair of nodes
\* has two edges (checked under SpecRank)
C21_EdgeKinds ==
    rk_pc = "ranked" =>
        LET edges == rk_out.graph.edges
        IN  /\ \A e \in edges :
                  /\ <<e.type, e.weight>> \in
                        {<<"call", 2>>, <<"import", 1>>, <<"inheritance", 3>>}
                  /\ (e.src = e.dst) <=> (e.type = "import")
                  /\ e.type = "import" => e.src \in ImportedNames
            /\ \A e, f \in edges : (e.src = f.src /\ e.dst = f.dst) => e = f

C21_Witness ==
    /\ rk_pc = "ranked"
    /\ rk_in.calls = <<"Foo">>
    /\ \E e, f, g \in rk_out.graph.edges :
          /\ e.type = "call" /\ e.dst = "Foo"
          /\ f.type = "import" /\ f.src = "Foo"
          /\ g.type = "inheritance" /\ g.src = "Foo.bar" /\ g.dst = "Foo"

\* C27: the nodes of the built graph are exactly the distinct symbol names:
\* every symbol's name is a node and no edge brings in another node; so the
\* mapping rank_symbols returns has one entry per distinct symbol name and
\* sorting the symbols by score never falls back on the default 0.0
\* (checked under SpecRank)
C27_NodesAreSymbolNames ==
    rk_pc = "ranked" =>
        /\ rk_out.graph.nodes = RankedNames
        /\ \A e \in rk_out.graph.edges : e.src \in RankedNames /\ e.dst \in RankedNames
        /\ DOMAIN rk_out.pagerank_scores = RankedNames
        /\ DOMAIN rk_out.scores = RankedNames
        /\ \A i \in 1..Len(RankedSymbols) :
              RankedSymbols[i].name \in DOMAIN rk_out.scores

C27_Witness ==
    /\ rk_pc = "ranked"
    /\ Len(RankedSymbols) > Cardinality(RankedNames)
    /\ \E i \in 1..Len(RankedSymbols) :
          /\ RankedSymbols[i].type = "method"
          /\ ClassNameOf(RankedSymbols[i].name) \notin RankedNames
    /\ rk_out.graph.edges # {}

\* C28: every file content parsed for a map is the content of its path at
\* the commit under which the map is cached: the tree and the file contents
\* of one request come from one snapshot, also when the default branch
\* moves between the fetches of the request
C28_OneSnapshot ==
    (pc \in {"files", "done"} /\ lookup.looked /\ ~lookup.hit) =>
        \A i \in 1..Len(fetch_log) :
            fetch_log[i].outcome = "ok" => fetch_log[i].commit = lookup.commit

\* generate_map went past get_tree and returned without a cache hit
Generated ==
    /\ pc = "done"
    /\ lookup.looked
    /\ ~lookup.hit
    /\ ~Aborted

\* C18: a request whose filtered tree holds no code file, or whose processed
\* files gave no symbol (every one of them may have failed), ends with the
\* sentinel result: the message as the whole map, no symbols, not an error;
\* the ranker has not run
C18_Sentinel ==
    (Generated /\ all_symbols = <<>>) =>
        LET text == IF code_files = <<>>
                    THEN "No supported code files found in repository."
                    ELSE "No symbols found in repository."
        IN  /\ result # <<>>
            /\ result[1].map = <<TextLine(text)>>
            /\ result[1].symbols = <<>>
            /\ result[1].files = Len(code_files)
            /\ ~response.isError
            /\ response.map = <<TextLine(text)>>
            /\ response.total_symbols = 0
            /\ response.displayed_symbols = 0
            /\ ranking = NoRanking

C18_Witness ==
    /\ Generated
    /\ req.repo = "dead"
    /\ Len(fetch_log) = 3
    /\ \A k \in 1..Len(fetch_log) : fetch_log[k].outcome # "ok"
    /\ result # <<>>
    /\ result[1].symbols = <<>>

---------------------------------------------------------------------------
(* Claims about ParserFactory, checked under SpecFactory *)

\* the extension of a path: its text from the last dot on, "" without a dot
Extension(path) ==
    LET dots == {i \in 1..Len(path) : SubSeq(path, i, i) = "."}
    IN  IF dots = {} THEN ""
        ELSE SubSeq(path, CHOOSE i \in dots : \A j \in dots : j <= i, Len(path))

\* the parser class the claim maps an extension to
ClaimedClass(ext) ==
    IF ext = ".py" THEN "PythonParser"
    ELSE IF ext \in {".js", ".jsx", ".mjs", ".cjs"} THEN "JavaScriptParser"
    ELSE IF ext \in {".ts", ".tsx", ".mts", ".cts"} THEN "TypeScriptParser"
    ELSE "None"

\* C19: get_parser(file_path) returns an instance of the class mapped to
\* the extension of the path, and None for any other extension;
\* is_supported(file_path) is True exactly when get_parser selects a class
C19_ParserSelection ==
    pf.calls > 0 =>
        /\ pf.parser = ClaimedClass(Extension(pf.file_path))
        /\ pf.supported <=> ParserClass(pf.file_path) # "None"

---------------------------------------------------------------------------
(* Claims about _extract_imported_names *)

\* import statements as the parsers hand them over: Python's two forms, with
\* and without aliases and dotted modules, and the statements of a
\* JavaScript or TypeScript file
ImportTexts ==
    {"from pkg import helper as h, Foo",
     "from  m  import  main  as  b , App",
     "from x",
     "import os.main",
     "import  helper ,b.Foo as d",
     "import bulk_import as bi, os.path",
     "import x from 'y'",
     "import { load } from './a'",
     "require('x')"}

InitImports ==
    /\ IdleTool
    /\ catalog = {}
    /\ budget = 0
    /\ broken = {}
    /\ head = InitialHead
    /\ now = 0
    /\ rk_pc = "input"
    /\ rk_in \in {[symbols |-> l, imports |-> <<t>>, calls |-> <<>>] :
                    <<l, t>> \in DistinctLists(SymbolPool, 2) \X ImportTexts}
    /\ FreshRanker

NextImports == Rank

SpecImports == InitImports /\ [][NextImports]_vars

\* the names the two textual forms stand for: the items after
\* "from <module> import ", each without its alias and trimmed; the items
\* after "import ", each without its alias, trimmed and cut to its last
\* dotted segment; no name for any other text
NamedByForm(import_stmt) ==
    IF StartsWith(import_stmt, "from ") /\ Contains(import_stmt, " import ")
    THEN LET items == Split(SplitOnce(import_stmt, " import ")[2], ",")
         IN  [i \in 1..Len(items) |-> ImportItemName(items[i])]
    ELSE IF StartsWith(import_stmt, "import ")
         THEN LET items == Split(SubSeq(import_stmt, 8, Len(import_stmt)), ",")
              IN  [i \in 1..Len(items) |-> LastDotted(ImportItemName(items[i]))]
         ELSE <<>>

\* C22: _extract_imported_names returns, for "from M import n1, n2 as a",
\* the trimmed names n1 and n2 without their alias, for "import m1 as a, p.q"
\* the names m1 and q, and for a text of neither form the empty list.
C22_ImportedNames ==
    rk_pc = "ranked" =>
        \A k \in 1..Len(rk_in.imports) :
            ExtractImportedNames(rk_in.imports[k]) = NamedByForm(rk_in.imports[k])

---------------------------------------------------------------------------
(* Claims about GitHubClient and RateLimiter *)

TreeCallOver == gt.pc \in {"returned", "raised"}

\* C23: a get_tree call makes at most two tree fetches; when the ref is
\* HEAD and the fetch fails, whatever the failure, a second fetch asks for
\* main; a call for any other ref makes one fetch.
C23_FallbackOnFailure ==
    TreeCallOver =>
        /\ Len(gt.fetches) <= 2
        /\ (gt.arg = "HEAD" /\ gt.fetches[1].error # "None") =>
               (Len(gt.fetches) = 2 /\ gt.fetches[2].tree_sha = "main")
        /\ gt.arg # "HEAD" => Len(gt.fetches) = 1

---------------------------------------------------------------------------
(* Further claims about ParserFactory, checked under SpecFactory *)

\* C24: over any sequence of get_parser calls the registry holds at most one
\* instance of each parser class, ever, and every successful call that
\* selects the class returns that instance; a failed construction stores
\* nothing, returns None and leaves the instances of the other classes.
C24_OneInstance ==
    /\ \A c \in ParserClasses :
          /\ pf.made[c] <= 1
          /\ c \in parser_cache <=> pf.made[c] = 1
    /\ pf.calls > 0 =>
          /\ pf.before \subseteq parser_cache
          /\ pf.parser # "None" =>
                (pf.parser = ParserClass(pf.file_path)
                    /\ pf.parser \in parser_cache /\ pf.serial = 1)
          /\ (ParserClass(pf.file_path) \in broken) =>
                (pf.parser = "None" /\ parser_cache = pf.before)

C24_Witness ==
    /\ pf.calls = 2
    /\ pf.parser \in pf.before
    /\ broken # {}

---------------------------------------------------------------------------
(* Claims about RateLimiter, checked under SpecLimiter *)

\* C25: check_limit raises RateLimitError exactly when remaining, after a
\* window reset that is due, is not positive, and then leaves remaining as
\* it was; otherwise it lowers remaining of that endpoint type by one; the
\* other endpoint type is untouched either way.  remaining never goes below
\* zero and, as long as no header has changed the entry since its window
\* began, the calls let through in the window and what remains add up to
\* what the window started with, which is at most the limit of the entry.
C25_CheckLimit ==
    /\ \A t \in {"general", "search"} :
          /\ rl_state[t].remaining >= 0
          /\ rl_last.clean[t] =>
                /\ rl_last.passed[t] + rl_state[t].remaining = rl_last.start[t]
                /\ rl_last.start[t] <= rl_state[t].limit
    /\ rl_last.op = "check_limit" =>
          LET before == rl_last.before
              et == EffectiveType(before, rl_last.endpoint_type)
              other == IF et = "general" THEN "search" ELSE "general"
              due == rl_last.at >= before[et].reset
              base == IF due THEN ClassLimit(et) ELSE before[et].remaining
          IN  /\ rl_last.raised <=> base <= 0
              /\ rl_last.raised => rl_state[et].remaining = before[et].remaining
              /\ ~rl_last.raised => rl_state[et].remaining = base - 1
              /\ rl_last.reset <=> due
              /\ rl_state[other] = before[other]

---------------------------------------------------------------------------
(* Claims about GitHubClient._make_request, checked under SpecClient *)

Retried == {"transport", "http error", "429"}

\* check_limit let the _make_request call through
LetThrough == mr.pc = "attempt" \/ mr.attempts >= 1

\* C26: a _make_request call with max_retries >= 1 that check_limit lets
\* through takes exactly one unit of the local budget in one check_limit,
\* makes at most max_retries attempts and ends by returning a successful
\* response or by raising; it goes on to another attempt only after a
\* transport error, an HTTP error or a 429, and those raise at the last
\* attempt only.  (The claim says as much of every call; a call that
\* check_limit refuses takes no unit and is left out here.)
C26_RetriedToTheLast ==
    (mr.max_retries >= 1 /\ LetThrough) =>
        /\ mr.checks = 1
        /\ mr.consumed = 1
        /\ mr.attempts <= mr.max_retries
        /\ mr.pc = "attempt" =>
              /\ mr.attempts < mr.max_retries
              /\ mr.attempt = mr.attempts
              /\ mr.attempts > 0 => mr.last \in Retried
        /\ mr.pc = "returned" => (mr.last = "ok" /\ mr.error = "None")
        /\ mr.pc = "raised" =>
              /\ mr.last \notin {"none", "ok"}
              /\ mr.error # "None"
              /\ mr.last \in Retried => mr.attempts = mr.max_retries

---------------------------------------------------------------------------
(* Claims about the cache writes of generate_map, checked under SpecCache *)

\* the cache file of the request being served: owner, repo and the
\* commit_sha the run resolved (the SHA of the branch head when the run
\* started, or HEAD when the branch lookup failed)
OwnCacheFile ==
    req.owner \o "_" \o req.repo \o "_" \o commit_sha \o ".pkl"

\* what generate_map gave is no map: it raised, or it returned a sentinel
NoMap(dict) == dict = <<>> \/ "total_symbols" \notin DOMAIN dict[1]

\* the request before this one looked its key up, missed and ended without
\* a map
PreviousGaveNoMap ==
    previous.looked /\ ~previous.hit /\ NoMap(previous.result)

\* C29: generate_map writes the cache only at the end of a run that
\* assembled a map with at least one symbol, and writes only the entry of
\* its own owner, repo and commit; a cache hit, a sentinel outcome and a
\* failed run leave the cache as it was, and the request that follows a run
\* without a map and has its key finds nothing to serve for it: it misses.
C29_CacheWrites ==
    /\ [][cache' # cache =>
            /\ pc = "files" /\ pc' = "done"
            /\ ~lookup.hit
            /\ all_symbols # <<>>
            /\ result' # <<>>
            /\ "total_symbols" \in DOMAIN result'[1]
            /\ result'[1].total_symbols = Len(all_symbols)
            /\ commit_sha \in {Repositories[lookup.name][lookup.commit].sha, "HEAD"}
            /\ DOMAIN cache' = DOMAIN cache \cup {OwnCacheFile}
            /\ cache'[OwnCacheFile].value = result'
            /\ \A p \in DOMAIN cache : p # OwnCacheFile => cache'[p] = cache[p]]_vars
    /\ [][(pc' = "done" /\ NoMap(result')) => cache' = cache]_vars
    /\ []((lookup.looked /\ PreviousGaveNoMap /\ previous.cache_key = cache_key)
              => ~lookup.hit)

\* the only file was not served, the request returned the sentinel and left
\* the cache empty; the next request for the key fetched the tree and the
\* file again and stored the map
C29_Witness ==
    /\ pc = "done"
    /\ PreviousGaveNoMap
    /\ previous.result # <<>>
    /\ previous.cache_key = cache_key
    /\ api_log # <<>>
    /\ api_log[Len(api_log)].op = "cache.set"
    /\ \E k \in 1..Len(api_log) : api_log[k].op = "get_tree"
    /\ fetch_log # <<>>
    /\ DOMAIN cache = {OwnCacheFile}

---------------------------------------------------------------------------
(* Claims about PythonParser.extract_signatures, checked under SpecOnce *)

\* the symbols the request collected for the declaration named name
SymbolsNamed(name) == SelectSeq(all_symbols, LAMBDA s : s.name = name)

\* C30: extract_signatures emits one Symbol per function or class
\* definition of the file: a module-level function once, as a function, a
\* function in a class body once, as a method; total_symbols counts each
\* declaration once.  On the repository of a.py (def main) and b.py (class
\* Util with def helper), both fetched and parsed, that is three symbols.
C30_OneSymbolPerDeclaration ==
    (pc = "done" /\ req.repo = "util" /\ ~response.isError /\ AllFilesParsed) =>
        /\ Len(SymbolsNamed("main")) = 1
        /\ SymbolsNamed("main")[1].type = "function"
        /\ Len(SymbolsNamed("Util")) = 1
        /\ Len(SymbolsNamed("helper")) = 1
        /\ SymbolsNamed("helper")[1].type = "method"
        /\ response.total_symbols = 3

============================================================================
